---- MODULE Spec2Model ----
(***************************************************************************)
(* LinkHub backend: the sandboxed OS bridge (os_router.py), the whitelist  *)
(* setting it reads (system_router.py, config.py) and the heuristic        *)
(* executable picker of the installer (installer_router.py).               *)
(*                                                                         *)
(* Strings are sequences of one-character strings, so that substring       *)
(* tests, case folding, suffix extraction and path splitting are computed  *)
(* the way the Python code computes them.  Paths use the POSIX flavour of  *)
(* pathlib ("/" separator, case-sensitive parts).                          *)
(***************************************************************************)
EXTENDS Naturals, Integers, Sequences, FiniteSets, TLC

(***************************************************************************)
(* str helpers (Python str semantics on sequences of characters)           *)
(***************************************************************************)

UpperChars == <<"A","B","C","D","E","F","G","H","I","J","K","L","M",
                "N","O","P","Q","R","S","T","U","V","W","X","Y","Z">>

LowerChars == <<"a","b","c","d","e","f","g","h","i","j","k","l","m",
                "n","o","p","q","r","s","t","u","v","w","x","y","z">>

\* the lower-case letter of each upper-case letter
LowerOf ==
    [c \in { UpperChars[i] : i \in 1..Len(UpperChars) } |->
        LowerChars[CHOOSE i \in 1..Len(UpperChars) : UpperChars[i] = c]]

\* str.lower() on one character
LowerChar(c) == IF c \in DOMAIN LowerOf THEN LowerOf[c] ELSE c

\* str.lower()
Lower(s) == [i \in 1..Len(s) |-> LowerChar(s[i])]

\* `sub in s` for two str
StrContains(s, sub) ==
    \E i \in 1..(Len(s) - Len(sub) + 1) : SubSeq(s, i, i + Len(sub) - 1) = sub

\* s.startswith(p)
StartsWith(s, p) == Len(p) <= Len(s) /\ SubSeq(s, 1, Len(p)) = p

\* s.replace(c, "") for a one-character c
RECURSIVE RemoveChar(_, _)
RemoveChar(s, c) ==
    IF s = <<>> THEN <<>>
    ELSE IF Head(s) = c THEN RemoveChar(Tail(s), c)
         ELSE <<Head(s)>> \o RemoveChar(Tail(s), c)

\* s.rfind(c): the last index of c in s, 0 when absent (Python: -1)
RFind(s, c) ==
    IF \E i \in 1..Len(s) : s[i] = c
    THEN CHOOSE i \in 1..Len(s) : s[i] = c /\ \A j \in (i+1)..Len(s) : s[j] # c
    ELSE 0

(***************************************************************************)
(* pathlib.PurePosixPath                                                   *)
(***************************************************************************)

\* the components of a path string, "" and "." components dropped as
\* pathlib's parser drops them; ".." components are kept
RECURSIVE SplitParts(_, _)
SplitParts(s, cur) ==
    IF s = <<>>
    THEN IF cur = <<>> \/ cur = <<".">> THEN <<>> ELSE <<cur>>
    ELSE IF Head(s) = "/"
         THEN (IF cur = <<>> \/ cur = <<".">> THEN <<>> ELSE <<cur>>)
              \o SplitParts(Tail(s), <<>>)
         ELSE SplitParts(Tail(s), Append(cur, Head(s)))

\* Path(raw): [abs, parts]
PathOf(raw) == [abs |-> (Len(raw) > 0 /\ raw[1] = "/"), parts |-> SplitParts(raw, <<>>)]

\* Path.is_absolute()
IsAbsolute(p) == p.abs

\* Path.name
PathName(p) == IF p.parts = <<>> THEN <<>> ELSE p.parts[Len(p.parts)]

\* Path.suffix: from the last dot of the name, unless the dot leads or ends it
PathSuffix(p) ==
    LET name == PathName(p)
        i == RFind(name, ".")
    IN IF 1 < i /\ i < Len(name) THEN SubSeq(name, i, Len(name)) ELSE <<>>

\* Path.stem
StemAt(name, i) == IF 1 < i /\ i < Len(name) THEN SubSeq(name, 1, i - 1) ELSE name

\* Path.stem
StemOfName(name) == StemAt(name, RFind(name, "."))

\* Path.stem of a path
PathStem(p) == StemOfName(PathName(p))

\* str(Path)
RECURSIVE JoinParts(_)
JoinParts(parts) ==
    IF parts = <<>> THEN <<>>
    ELSE IF Len(parts) = 1 THEN parts[1]
         ELSE parts[1] \o <<"/">> \o JoinParts(Tail(parts))

PathStr(p) ==
    IF p.abs THEN <<"/">> \o JoinParts(p.parts)
    ELSE IF p.parts = <<>> THEN <<".">> ELSE JoinParts(p.parts)

\* the mutant of IsRelativeTo that compares the rendered strings by prefix
StrPrefixRelativeTo(target, other) == StartsWith(PathStr(target), PathStr(other))

\* PurePath.is_relative_to(other): other is target or one of its parents,
\* compared part by part
IsRelativeTo(target, other) ==
    /\ target.abs = other.abs
    /\ Len(other.parts) <= Len(target.parts)
    /\ SubSeq(target.parts, 1, Len(other.parts)) = other.parts

(***************************************************************************)
(* The filesystem the backend runs on.  A filesystem is a record           *)
(*   dirs  : the real directories, each a sequence of parts from the root  *)
(*   files : the regular files                                             *)
(*   links : the symbolic links, [at |-> parts, to |-> target string]      *)
(***************************************************************************)

n_data   == <<"d","a","t","a">>
n_app    == <<"a","p","p">>
n_app2   == <<"a","p","p","2">>
n_secret == <<"s","e","c","r","e","t">>
n_wl     == <<"w","l">>
n_lnk    == <<"l","n","k">>
n_sub    == <<"s","u","b">>
n_srv    == <<"s","r","v">>
n_xexe   == <<"x",".","e","x","e">>
n_XEXE   == <<"X",".","E","X","E">>
n_noexe  == <<"n","o",".","e","x","e">>
n_rtxt   == <<"r",".","t","x","t">>
n_qtxt   == <<"q",".","t","x","t">>
n_dots   == <<"a",".",".","b",".","e","x","e">>
n_up     == <<".",".">>

\* the string of the absolute path with these parts
AbsStr(parts) == <<"/">> \o JoinParts(parts)

BaseDirs ==
    { <<>>, <<n_data>>, <<n_data, n_app>>, <<n_data, n_app, n_sub>>,
      <<n_data, n_app2>>, <<n_secret>>, <<n_srv>> }

BaseFiles ==
    { <<n_data, n_app, n_xexe>>, <<n_data, n_app, n_XEXE>>,
      <<n_data, n_app, n_rtxt>>, <<n_data, n_app2, n_xexe>>,
      <<n_secret, n_xexe>> }

\* /data/app/lnk -> /secret and /wl -> /data/app are symbolic links
FsLinked ==
    [dirs  |-> BaseDirs,
     files |-> BaseFiles,
     links |-> { [at |-> <<n_data, n_app, n_lnk>>, to |-> AbsStr(<<n_secret>>)],
                 [at |-> <<n_wl>>, to |-> AbsStr(<<n_data, n_app>>)] }]

\* /data/app/lnk and /wl are real directories
FsPlain ==
    [dirs  |-> BaseDirs \cup { <<n_data, n_app, n_lnk>>, <<n_wl>> },
     files |-> BaseFiles \cup { <<n_data, n_app, n_lnk, n_xexe>>, <<n_wl, n_xexe>> },
     links |-> {}]

\* the filesystems the backend is run on, by name
FsNames == { "linked", "plain" }

FsOf(name) == IF name = "linked" THEN FsLinked ELSE FsPlain

\* os.getcwd() of the server process
Cwd == <<n_srv>>

\* os.path.islink
IsLink(f, parts) == \E l \in f.links : l.at = parts

\* os.readlink
ReadLink(f, parts) == (CHOOSE l \in f.links : l.at = parts).to

\* posixpath._joinrealpath: walk the components, following each symbolic
\* link met; ".." steps to the parent of the path resolved so far; what
\* does not exist is kept as written (strict=False)
RECURSIVE JoinRealPath(_, _, _)
JoinRealPath(f, cur, rest) ==
    IF rest = <<>> THEN cur
    ELSE LET name == Head(rest)
             newpath == Append(cur, name)
         IN IF name = n_up
            THEN JoinRealPath(f, IF cur = <<>> THEN <<>> ELSE SubSeq(cur, 1, Len(cur) - 1),
                              Tail(rest))
            ELSE IF IsLink(f, newpath)
                 THEN LET to == PathOf(ReadLink(f, newpath))
                      IN JoinRealPath(f, IF to.abs THEN <<>> ELSE cur,
                                      to.parts \o Tail(rest))
                 ELSE JoinRealPath(f, newpath, Tail(rest))

\* the mutant of Resolve that makes the path absolute without following links
AbsoluteOnly(f, p) ==
    [abs |-> TRUE, parts |-> IF p.abs THEN p.parts ELSE Cwd \o p.parts]

\* Path.resolve(): the canonical absolute path
Resolve(f, p) ==
    [abs |-> TRUE,
     parts |-> JoinRealPath(f, <<>>, IF p.abs THEN p.parts ELSE Cwd \o p.parts)]

\* Path.is_file() and Path.is_dir(), both following links
IsFile(f, p) == Resolve(f, p).parts \in f.files

IsDir(f, p) == Resolve(f, p).parts \in f.dirs

(***************************************************************************)
(* The whitelist setting: system_settings['allowed_dirs'] holds a JSON     *)
(* list.  An item of the list is [kind, path, type]: kind "dict" for       *)
(* {"path": .., "type": ..}, kind "str" for a bare path string (legacy).   *)
(***************************************************************************)

DIR_TYPE_SOFTWARE == "software"
DIR_TYPE_WORKSPACE == "workspace"
VALID_DIR_TYPES == { DIR_TYPE_SOFTWARE, DIR_TYPE_WORKSPACE }

\* ALLOWED_EXECUTABLE_SUFFIXES
ALLOWED_EXECUTABLE_SUFFIXES ==
    { <<".","e","x","e">>, <<".","b","a","t">>, <<".","c","m","d">>, <<".","l","n","k">> }

\* DEFAULT_ALLOWED_DIRS, and the JSON list main.py seeds from it
DEFAULT_ALLOWED_DIRS == <<>>

\* str.strip() for blanks
RECURSIVE LStrip(_)
LStrip(s) == IF s # <<>> /\ Head(s) = " " THEN LStrip(Tail(s)) ELSE s

RECURSIVE RStrip(_)
RStrip(s) ==
    IF s # <<>> /\ s[Len(s)] = " " THEN RStrip(SubSeq(s, 1, Len(s) - 1)) ELSE s

Strip(s) == LStrip(RStrip(s))

\* one item of the list, normalised to a DirEntry; <<>> when it is dropped
NormaliseItem(item) ==
    IF item.kind = "dict"
    THEN IF Strip(item.path) # <<>> /\ item.type \in VALID_DIR_TYPES
         THEN << [path |-> Strip(item.path), type |-> item.type] >>
         ELSE <<>>
    ELSE IF Strip(item.path) # <<>>
         THEN << [path |-> Strip(item.path), type |-> DIR_TYPE_SOFTWARE] >>
         ELSE <<>>

RECURSIVE NormaliseItems(_)
NormaliseItems(items) ==
    IF items = <<>> THEN <<>>
    ELSE NormaliseItem(Head(items)) \o NormaliseItems(Tail(items))

\* parse_allowed_dirs: the DirEntry list of a stored JSON list, either format
parse_allowed_dirs(raw_json) == NormaliseItems(raw_json)

\* serialize_allowed_dirs: json.dumps of a DirEntry list
serialize_allowed_dirs(entries) ==
    [i \in 1..Len(entries) |->
        [kind |-> "dict", path |-> entries[i].path, type |-> entries[i].type]]

\* all_dir_paths
all_dir_paths(entries) == [i \in 1..Len(entries) |-> PathOf(entries[i].path)]

\* the mutant of ReadAllowedDirsSetting that serves the startup default
\* instead of the stored row
StartupAllowedDirs(stored) == serialize_allowed_dirs(DEFAULT_ALLOWED_DIRS)

\* select SystemSetting.value where key == "allowed_dirs"
ReadAllowedDirsSetting(stored) == stored

\* _get_allowed_dirs: every whitelist entry, resolved
GetAllowedDirs(f, stored) ==
    LET paths == all_dir_paths(parse_allowed_dirs(ReadAllowedDirsSetting(stored)))
    IN [i \in 1..Len(paths) |-> Resolve(f, paths[i])]

\* _validate_path_within_whitelist
ValidatePathWithinWhitelist(target, allowed) ==
    \E i \in 1..Len(allowed) : IsRelativeTo(target, allowed[i])

(***************************************************************************)
(* OS bridge: results, the sandbox and the launch steps                    *)
(***************************************************************************)

\* the elevation-required error code (ERROR_ELEVATION_REQUIRED)
WinErrorElevation == 740

\* ShellExecuteW succeeded when it returns more than this
ShellExecuteFailMax == 32

NoPath == [abs |-> FALSE, parts |-> <<>>]

NoResult == [status |-> 0, kind |-> "none", target |-> <<>>]

\* raise HTTPException(status_code, detail)
HttpError(status, kind) == [status |-> status, kind |-> kind, target |-> <<>>]

\* OSActionResponse(success=True, message, target_path)
ActionResponse(kind, target) == [status |-> 200, kind |-> kind, target |-> PathStr(target)]

\* the mutant of SanitizeAndResolve that looks for ".." among the parsed
\* parts only, after the path is parsed
SanitizePartsOnly(f, raw) ==
    IF ~IsAbsolute(PathOf(raw))
    THEN [ok |-> FALSE, res |-> HttpError(400, "BadInput"), path |-> NoPath, resolved |-> FALSE]
    ELSE IF \E i \in 1..Len(PathOf(raw).parts) : PathOf(raw).parts[i] = n_up
         THEN [ok |-> FALSE, res |-> HttpError(400, "BadInput"),
               path |-> Resolve(f, PathOf(raw)), resolved |-> TRUE]
         ELSE [ok |-> TRUE, res |-> NoResult, path |-> Resolve(f, PathOf(raw)),
               resolved |-> TRUE]

\* the mutant of SanitizeAndResolve that makes the path absolute lexically
\* (Path.absolute()) and follows no link
SanitizeLexical(f, raw) ==
    IF StrContains(raw, <<".", ".">>)
    THEN [ok |-> FALSE, res |-> HttpError(400, "BadInput"), path |-> NoPath, resolved |-> FALSE]
    ELSE IF ~IsAbsolute(PathOf(raw))
         THEN [ok |-> FALSE, res |-> HttpError(400, "BadInput"), path |-> NoPath,
               resolved |-> FALSE]
         ELSE [ok |-> TRUE, res |-> NoResult, path |-> AbsoluteOnly(f, PathOf(raw)),
               resolved |-> TRUE]

\* _sanitize_and_resolve; `resolved` tells whether resolve() was reached
SanitizeAndResolve(f, raw) ==
    IF StrContains(raw, <<".", ".">>)
    THEN [ok |-> FALSE, res |-> HttpError(400, "BadInput"), path |-> NoPath, resolved |-> FALSE]
    ELSE IF ~IsAbsolute(PathOf(raw))
         THEN [ok |-> FALSE, res |-> HttpError(400, "BadInput"), path |-> NoPath,
               resolved |-> FALSE]
         ELSE [ok |-> TRUE, res |-> NoResult, path |-> Resolve(f, PathOf(raw)),
               resolved |-> TRUE]

\* the mutant of LaunchChecks that tests the suffix before the whitelist
LaunchChecksSuffixFirst(f, resolved, allowed) ==
    IF Lower(PathSuffix(resolved)) \notin ALLOWED_EXECUTABLE_SUFFIXES
    THEN HttpError(400, "UnsupportedType")
    ELSE IF ~ValidatePathWithinWhitelist(resolved, allowed)
         THEN HttpError(403, "Forbidden")
         ELSE IF ~IsFile(f, resolved) THEN HttpError(404, "NotFound") ELSE NoResult

\* the mutant of LaunchChecks that leaves out the existence check
LaunchChecksNoIsFile(f, resolved, allowed) ==
    IF ~ValidatePathWithinWhitelist(resolved, allowed)
    THEN HttpError(403, "Forbidden")
    ELSE IF Lower(PathSuffix(resolved)) \notin ALLOWED_EXECUTABLE_SUFFIXES
         THEN HttpError(400, "UnsupportedType")
         ELSE NoResult

\* launch_executable, the checks before the spawn: NoResult when all pass
LaunchChecks(f, resolved, allowed) ==
    IF ~ValidatePathWithinWhitelist(resolved, allowed)
    THEN HttpError(403, "Forbidden")
    ELSE IF Lower(PathSuffix(resolved)) \notin ALLOWED_EXECUTABLE_SUFFIXES
         THEN HttpError(400, "UnsupportedType")
         ELSE IF ~IsFile(f, resolved) THEN HttpError(404, "NotFound") ELSE NoResult

\* open_directory, the checks before the explorer is started
OpenDirChecks(f, resolved, allowed) ==
    IF ~ValidatePathWithinWhitelist(resolved, allowed)
    THEN HttpError(403, "Forbidden")
    ELSE IF ~IsDir(f, resolved) THEN HttpError(404, "NotFound") ELSE NoResult

\* the mutant of StartProcess that retries elevated on every OSError
StartProcessAlwaysElevate(platform, popen, shell) ==
    IF ~popen.raised
    THEN [started |-> "normal", popens |-> 1, elevs |-> 0, res |-> NoResult]
    ELSE IF shell.raised
         THEN [started |-> "none", popens |-> 1, elevs |-> 1,
               res |-> HttpError(500, "ElevationFailed")]
         ELSE IF shell.ret > ShellExecuteFailMax
              THEN [started |-> "elevated", popens |-> 1, elevs |-> 1, res |-> NoResult]
              ELSE [started |-> "none", popens |-> 1, elevs |-> 1,
                    res |-> HttpError(500, "ElevationDeclined")]

\* launch_executable, the spawn: subprocess.Popen, and ShellExecuteW "runas"
\* when Popen raised OSError with winerror 740 on win32.
\*   popen : [raised, winerror]   what subprocess.Popen does
\*   shell : [raised, ret]        what ShellExecuteW does if it is called
StartProcess(platform, popen, shell) ==
    IF ~popen.raised
    THEN [started |-> "normal", popens |-> 1, elevs |-> 0, res |-> NoResult]
    ELSE IF platform = "win32" /\ popen.winerror = WinErrorElevation
         THEN IF shell.raised
              THEN [started |-> "none", popens |-> 1, elevs |-> 1,
                    res |-> HttpError(500, "ElevationFailed")]
              ELSE IF shell.ret > ShellExecuteFailMax
                   THEN [started |-> "elevated", popens |-> 1, elevs |-> 1, res |-> NoResult]
                   ELSE [started |-> "none", popens |-> 1, elevs |-> 1,
                         res |-> HttpError(500, "ElevationDeclined")]
         ELSE [started |-> "none", popens |-> 1, elevs |-> 0,
               res |-> HttpError(500, "LaunchFailure")]

(***************************************************************************)
(* The "last used" update of a launched program and the request session    *)
(***************************************************************************)

\* the columns of portable_software the model keeps.  PortableSoftware maps
\* id, name, executable_path, description, tags, icon_path, created_at and
\* updated_at; it maps no last_used_at
SoftwareColumns == { "executable_path" }

\* sw.last_used_at = datetime.now(timezone.utc) on a loaded row
WithLastUsed(sw) ==
    [c \in DOMAIN sw \cup { "last_used_at" } |-> IF c = "last_used_at" THEN 1 ELSE sw[c]]

\* what a commit writes of a loaded object: its mapped columns
StoreRow(sw) == [c \in SoftwareColumns |-> sw[c]]

\* the rows of portable_software whose executable_path is this string
MatchingRows(table, pathstr) ==
    { i \in 1..Len(table) : table[i].executable_path = pathstr }

\* launch_executable, the body of the inner try: select the row, set
\* last_used_at, commit.  `lookup` and `commit` are what the store does
\* ("ok" or "error").  exc: an exception left the block; dirty: the session
\* is left with uncommitted changes (a failed commit rolls them back).
LastUsedAttempt(table, pathstr, lookup, commit) ==
    LET rows == MatchingRows(table, pathstr)
    IN IF lookup = "error"
       THEN [table |-> table, exc |-> TRUE, dirty |-> FALSE, how |-> "lookup_error"]
       ELSE IF Cardinality(rows) > 1
            THEN [table |-> table, exc |-> TRUE, dirty |-> FALSE, how |-> "multiple"]
            ELSE IF rows = {}
                 THEN [table |-> table, exc |-> FALSE, dirty |-> FALSE, how |-> "no_row"]
                 ELSE IF commit = "error"
                      THEN [table |-> table, exc |-> TRUE, dirty |-> FALSE,
                            how |-> "commit_error"]
                      ELSE [table |-> [table EXCEPT ![CHOOSE i \in rows : TRUE] =
                                                      StoreRow(WithLastUsed(@))],
                            exc |-> FALSE, dirty |-> FALSE, how |-> "updated"]

\* the mutant of UpdateLastUsed without the try/except around the update
UpdateLastUsedUnguarded(table, pathstr, lookup, commit) ==
    LET a == LastUsedAttempt(table, pathstr, lookup, commit)
    IN [table |-> a.table, raised |-> a.exc, dirty |-> a.dirty, how |-> a.how]

\* launch_executable, the inner try/except: every Exception of the update is
\* caught and logged
UpdateLastUsed(table, pathstr, lookup, commit) ==
    LET a == LastUsedAttempt(table, pathstr, lookup, commit)
    IN [table |-> a.table, raised |-> FALSE, dirty |-> a.dirty, how |-> a.how]

\* get_db after the handler: commit what the session still holds; an
\* exception there is rolled back and re-raised
GetDbTeardown(res, dirty, commit) ==
    IF res.status = 200 /\ dirty /\ commit = "error"
    THEN HttpError(500, "InternalError")
    ELSE res

(***************************************************************************)
(* Inputs                                                                  *)
(***************************************************************************)

\* the most rows of portable_software
MaxRows == 2

LaunchTargets ==
    { AbsStr(<<n_data, n_app, n_xexe>>),
      AbsStr(<<n_data, n_app, n_XEXE>>),
      AbsStr(<<n_data, n_app, n_noexe>>),
      AbsStr(<<n_data, n_app, n_rtxt>>),
      AbsStr(<<n_data, n_app, n_qtxt>>),
      AbsStr(<<n_data, n_app2, n_xexe>>),
      AbsStr(<<n_secret, n_qtxt>>),
      AbsStr(<<n_data, n_app, n_lnk, n_xexe>>),
      AbsStr(<<n_wl, n_xexe>>),
      AbsStr(<<n_data, n_app, n_up, n_app2, n_xexe>>),
      AbsStr(<<n_data, n_app, n_dots>>),
      JoinParts(<<n_data, n_app, n_xexe>>) }

OpenDirTargets ==
    { AbsStr(<<n_data, n_app, n_sub>>),
      AbsStr(<<n_data, n_app, n_noexe>>),
      AbsStr(<<n_data, n_app, n_xexe>>),
      AbsStr(<<n_data, n_app2>>),
      AbsStr(<<n_data, n_app, n_lnk>>),
      AbsStr(<<n_wl>>),
      AbsStr(<<n_data, n_app, n_up, n_app2>>),
      JoinParts(<<n_data, n_app>>) }

\* the items an allowed_dirs update is made of
WlItems ==
    { [kind |-> "dict", path |-> AbsStr(<<n_data, n_app>>), type |-> DIR_TYPE_SOFTWARE],
      [kind |-> "dict", path |-> AbsStr(<<n_wl>>), type |-> DIR_TYPE_WORKSPACE] }

\* the allowed_dirs lists an update sends: the items in any order, each at
\* most once
WlPayloads ==
    { s \in UNION { [1..n -> WlItems] : n \in 0..Cardinality(WlItems) } :
        \A i, j \in 1..Len(s) : i # j => s[i] # s[j] }

\* the executable_path values records are created with
RowPaths == { AbsStr(<<n_data, n_app, n_xexe>>) }

\* the tables of portable_software the backend starts on: records of earlier
\* installs, several of them with the same executable_path after
\* update_software set it
SoftwareTables ==
    UNION { [1..n -> { [executable_path |-> p] : p \in RowPaths }] : n \in 0..MaxRows }

Platforms == { "win32", "linux" }

\* what subprocess.Popen does: it starts the child, or raises OSError;
\* winerror is 0 where Python has None (always, off Windows)
PopenOutcomes(platform) ==
    { [raised |-> FALSE, winerror |-> 0], [raised |-> TRUE, winerror |-> 0] }
    \cup (IF platform = "win32"
          THEN { [raised |-> TRUE, winerror |-> WinErrorElevation],
                 [raised |-> TRUE, winerror |-> 5] }
          ELSE {})

\* what ShellExecuteW does: returns a code, or raises
ShellOutcomes ==
    { [raised |-> FALSE, ret |-> 42], [raised |-> FALSE, ret |-> ShellExecuteFailMax],
      [raised |-> FALSE, ret |-> 5], [raised |-> TRUE, ret |-> 0] }

StoreOutcomes == { "ok", "error" }

(***************************************************************************)
(* The heuristic picker of the installer.  A candidate executable is       *)
(* [path, size, stat_ok]: the path string, and what stat() gives for it.   *)
(***************************************************************************)

\* the most candidates a picker call is given
MaxCands == 3

\* exclude_keywords
exclude_keywords ==
    { <<"u","n","i","n","s","t","a","l","l">>, <<"u","n","i","n","s","t">>,
      <<"u","p","d","a","t","e">>, <<"u","p","d","a","t","e","r">>,
      <<"c","r","a","s","h">>, <<"h","e","l","p","e","r">> }

\* EXE_PRIORITY_KEYWORDS
EXE_PRIORITY_KEYWORDS ==
    { <<"l","a","u","n","c","h","e","r">>, <<"m","a","i","n">>,
      <<"s","t","a","r","t">>, <<"r","u","n">>, <<"a","p","p">>,
      <<"s","e","t","u","p">> }

\* e.stem of a candidate
CandStem(e) == PathStem(PathOf(e.path))

\* x.lower().replace(" ", "").replace("-", "").replace("_", "")
NormaliseKey(x) == RemoveChar(RemoveChar(RemoveChar(Lower(x), " "), "-"), "_")

\* any(kw in s for kw in kws)
ContainsAny(s, kws) == \E kw \in kws : StrContains(s, kw)

\* the test of the exclusion pass: a marker is in the lowercased stem
IsExcluded(e) == ContainsAny(Lower(CandStem(e)), exclude_keywords)

\* the list comprehension that builds `filtered`
FilterCandidates(executables) == SelectSeq(executables, LAMBDA e : ~IsExcluded(e))

\* score(), first component
NameScoreOf(stem, name_lower) ==
    IF stem = name_lower THEN 2
    ELSE IF StrContains(stem, name_lower) \/ StrContains(name_lower, stem) THEN 1
    ELSE 0

\* score(), first component, of a candidate
NameScore(e, name_lower) == NameScoreOf(NormaliseKey(CandStem(e)), name_lower)

\* score(), second component
KeywordScore(e) ==
    IF ContainsAny(NormaliseKey(CandStem(e)), EXE_PRIORITY_KEYWORDS) THEN 1 ELSE 0

\* score(), third component: st_size, 0 when stat() raises OSError
SizeScore(e) == IF e.stat_ok THEN e.size ELSE 0

\* the mutant of Score that ranks the launcher keyword before the name
ScoreKeywordFirst(e, name_lower) ==
    <<KeywordScore(e), NameScore(e, name_lower), SizeScore(e)>>

\* score(exe): the sort key
Score(e, name_lower) == <<NameScore(e, name_lower), KeywordScore(e), SizeScore(e)>>

\* tuple comparison a > b
TupleGreater(a, b) ==
    \/ a[1] > b[1]
    \/ a[1] = b[1] /\ a[2] > b[2]
    \/ a[1] = b[1] /\ a[2] = b[2] /\ a[3] > b[3]

\* list.sort(key=score, reverse=True) computes the key of each element once
RECURSIVE Keyed(_, _)
Keyed(executables, name_lower) ==
    IF executables = <<>> THEN <<>>
    ELSE << [key |-> Score(Head(executables), name_lower), item |-> Head(executables)] >>
         \o Keyed(Tail(executables), name_lower)

\* where the sort puts the i-th element: behind the elements with a greater
\* key, and behind those with its key that came before it (the sort is
\* stable, with reverse=True as without)
PlaceAfterSort(keyed, i) ==
    1 + Cardinality({ j \in 1..Len(keyed) :
                        \/ TupleGreater(keyed[j].key, keyed[i].key)
                        \/ keyed[j].key = keyed[i].key /\ j < i })

\* the elements of a list of keyed elements, in the order of the sort
SortKeyed(keyed) ==
    LET place == [i \in 1..Len(keyed) |-> PlaceAfterSort(keyed, i)]
    IN [p \in 1..Len(keyed) |-> keyed[CHOOSE i \in 1..Len(keyed) : place[i] = p].item]

\* the mutant of SortDescending that puts equal keys in the reverse of the
\* order they came in
SortDescendingLastFirst(executables, name_lower) ==
    SortKeyed(Keyed([i \in 1..Len(executables) |->
                        executables[Len(executables) + 1 - i]], name_lower))

\* executables.sort(key=score, reverse=True)
SortDescending(executables, name_lower) == SortKeyed(Keyed(executables, name_lower))

NoCandidate == [path |-> <<>>, size |-> 0, stat_ok |-> FALSE]

\* the mutant of HeuristicPick that returns None when every candidate is excluded
HeuristicPickNoFallback(executables, software_name) ==
    IF FilterCandidates(executables) = <<>>
    THEN [found |-> FALSE, exe |-> NoCandidate, after |-> executables]
    ELSE [found |-> TRUE,
          exe |-> SortDescending(FilterCandidates(executables),
                                 NormaliseKey(software_name))[1],
          after |-> executables]

\* return filtered[0], with the caller's list as the call leaves it
PickFirst(sorted, after) == [found |-> TRUE, exe |-> sorted[1], after |-> after]

\* the tail of _heuristic_pick, from `if not filtered` on: kept is the list
\* the comprehension built
PickSorted(executables, kept, name_lower) ==
    IF kept = <<>>
    THEN PickFirst(SortDescending(executables, name_lower),
                   SortDescending(executables, name_lower))
    ELSE PickFirst(SortDescending(kept, name_lower), executables)

\* _heuristic_pick: found is FALSE for None; after is the caller's list when
\* the call returns (the sort is in place, and `filtered` is the caller's
\* list itself when the exclusion pass fell back to it)
HeuristicPick(executables, software_name) ==
    IF executables = <<>>
    THEN [found |-> FALSE, exe |-> NoCandidate, after |-> executables]
    ELSE PickSorted(executables, FilterCandidates(executables),
                    NormaliseKey(software_name))

c_uninstall == [path |-> <<"/","i","/","u","n","i","n","s","t","a","l","l",".","e","x","e">>,
                size |-> 1024, stat_ok |-> TRUE]
c_Foo       == [path |-> <<"/","i","/","F","o","o",".","e","x","e">>,
                size |-> 2048, stat_ok |-> TRUE]
c_FooHelper == [path |-> <<"/","i","/","F","o","o","H","e","l","p","e","r",".","e","x","e">>,
                size |-> 500, stat_ok |-> TRUE]
c_foo_app   == [path |-> <<"/","i","/","f","o","o","_","a","p","p",".","e","x","e">>,
                size |-> 4096, stat_ok |-> TRUE]
c_launcher  == [path |-> <<"/","i","/","l","a","u","n","c","h","e","r",".","e","x","e">>,
                size |-> 8192, stat_ok |-> TRUE]
c_f_oo      == [path |-> <<"/","i","/","f","-","o","o",".","e","x","e">>,
                size |-> 100, stat_ok |-> TRUE]
c_bar       == [path |-> <<"/","i","/","b","a","r",".","e","x","e">>,
                size |-> 2048, stat_ok |-> FALSE]
c_updater   == [path |-> <<"/","i","/","U","p","d","a","t","e","r",".","e","x","e">>,
                size |-> 300, stat_ok |-> TRUE]
c_un_install == [path |-> <<"/","i","/","U","n","-","i","n","s","t","a","l","l",".","e","x","e">>,
                 size |-> 700, stat_ok |-> TRUE]

c_Foo_x64   == [path |-> <<"/","i","/","x","6","4","/","F","o","o",".","e","x","e">>,
                size |-> 2048, stat_ok |-> TRUE]

\* the files _find_executables can come back with
CandidatePool ==
    { c_uninstall, c_Foo, c_FooHelper, c_foo_app, c_launcher, c_f_oo, c_bar, c_updater,
      c_un_install, c_Foo_x64 }

\* os.walk lists a file once: the candidate lists have no repeated path
CandidateLists ==
    { s \in UNION { [1..n -> CandidatePool] : n \in 0..MaxCands } :
        \A i, j \in 1..Len(s) : i # j => s[i].path # s[j].path }

name_Foo       == <<"F","o","o">>
name_foo_app   == <<"f","o","o"," ","a","p","p">>
name_Uninstall == <<"U","n","-","i","n","s","t","a","l","l">>

SoftwareNames == { name_Foo, name_foo_app, name_Uninstall }

(***************************************************************************)
(* The installer's filesystem.  A tree is [dirs, files]: the directories   *)
(* as sequences of path parts from the root, and the files as              *)
(* [at, size, data], data naming the upload a temporary archive holds.     *)
(***************************************************************************)

n_Foo      == <<"F","o","o">>
n_FooExe   == <<"F","o","o",".","e","x","e">>
n_uninst   == <<"u","n","i","n","s","t","a","l","l",".","e","x","e">>

\* one path is the other or lies below it
IsBelow(p, top) == Len(top) <= Len(p) /\ SubSeq(p, 1, Len(top)) = top

\* the paths of the files of a tree
FilePaths(t) == { f.at : f \in t.files }

\* Path.exists()
Exists(t, p) == p \in t.dirs \/ p \in FilePaths(t)

\* the directories from the root down to p
Ancestors(p) == { SubSeq(p, 1, n) : n \in 0..Len(p) }

\* Path.mkdir(parents=True, exist_ok=True)
MkdirParents(t, p) == [t EXCEPT !.dirs = @ \cup Ancestors(p)]

\* open(p, "wb") and f.write(content): the file is created or replaced
WriteFile(t, p, size, data) ==
    [t EXCEPT !.files = { f \in @ : f.at # p } \cup { [at |-> p, size |-> size, data |-> data] }]

\* Path.unlink()
Unlink(t, p) == [t EXCEPT !.files = { f \in @ : f.at # p }]

\* shutil.rmtree(p, ignore_errors=True)
RmTree(t, p) ==
    IF p \in t.dirs
    THEN [dirs  |-> { d \in t.dirs : ~IsBelow(d, p) },
          files |-> { f \in t.files : ~IsBelow(f.at, p) }]
    ELSE t

\* the names Path.iterdir() yields
Iterdir(t, p) ==
    { q[Len(q)] : q \in { x \in t.dirs \cup FilePaths(t) : Len(x) = Len(p) + 1 /\ IsBelow(x, p) } }

\* a path below src, carried to the same place below dst
Rebase(q, src, dst) == dst \o SubSeq(q, Len(src) + 1, Len(q))

\* os.rename(src, dst): the file, or the directory with all it holds
Rename(t, src, dst) ==
    [dirs  |-> { IF IsBelow(d, src) THEN Rebase(d, src, dst) ELSE d : d \in t.dirs },
     files |-> { IF IsBelow(f.at, src) THEN [f EXCEPT !.at = Rebase(f.at, src, dst)] ELSE f :
                 f \in t.files }]

\* shutil.move(src, dst): into dst when dst is a directory, and then
\* shutil.Error when that name is taken there; ok is FALSE for the error
Move(t, src, dst) ==
    IF dst \in t.dirs
    THEN IF Exists(t, Append(dst, src[Len(src)]))
         THEN [ok |-> FALSE, tree |-> t]
         ELSE [ok |-> TRUE, tree |-> Rename(t, src, Append(dst, src[Len(src)]))]
    ELSE [ok |-> TRUE, tree |-> Rename(t, src, dst)]

\* a set of names as a list, in the order the directory is read; the order
\* does not show in what the loop below leaves, and nothing runs between
\* its moves
RECURSIVE ListOf(_)
ListOf(S) == IF S = {} THEN <<>> ELSE LET x == CHOOSE y \in S : TRUE
                                      IN <<x>> \o ListOf(S \ {x})

\* the loop `for item in nested.iterdir(): shutil.move(item, install_dir / item.name)`
RECURSIVE MoveChildren(_, _, _, _)
MoveChildren(t, nested, install_dir, names) ==
    IF names = <<>> THEN [ok |-> TRUE, tree |-> t]
    ELSE IF Move(t, Append(nested, Head(names)), Append(install_dir, Head(names))).ok
         THEN MoveChildren(Move(t, Append(nested, Head(names)),
                                Append(install_dir, Head(names))).tree,
                           nested, install_dir, Tail(names))
         ELSE [ok |-> FALSE, tree |-> t]

\* Path.rmdir() of an empty directory
Rmdir(t, p) == [t EXCEPT !.dirs = @ \ {p}]

\* the wrapper directory of `children`: the one entry, when it is a directory
HoistWrapper(t, install_dir, children) ==
    IF Cardinality(children) = 1 /\ Append(install_dir, CHOOSE c \in children : TRUE) \in t.dirs
    THEN << Append(install_dir, CHOOSE c \in children : TRUE) >>
    ELSE <<>>

\* the children of the wrapper moved up, and the wrapper removed
HoistFrom(t, install_dir, nested, moved) ==
    IF moved.ok THEN [ok |-> TRUE, tree |-> Rmdir(moved.tree, nested)] ELSE moved

\* upload_and_install, lines 307-314: a single top-level directory is
\* unwrapped
Hoist(t, install_dir) ==
    LET wrapper == HoistWrapper(t, install_dir, Iterdir(t, install_dir))
    IN IF wrapper = <<>> THEN [ok |-> TRUE, tree |-> t]
       ELSE HoistFrom(t, install_dir, wrapper[1],
                      MoveChildren(t, wrapper[1], install_dir,
                                   ListOf(Iterdir(t, wrapper[1]))))

\* zipfile.ZipFile.extractall(target_dir): the members of the archive are
\* written below target_dir
ExtractAll(t, target_dir, archive) ==
    [dirs  |-> t.dirs \cup { target_dir \o d : d \in archive.dirs },
     files |-> { f \in t.files : \A g \in archive.files : f.at # target_dir \o g.at }
               \cup { [at |-> target_dir \o g.at, size |-> g.size, data |-> ""] :
                      g \in archive.files }]

\* the files below a directory that carry an allowed executable suffix
ExecutableFiles(t, directory) ==
    { f \in t.files :
        /\ IsBelow(f.at, directory)
        /\ Lower(PathSuffix([abs |-> TRUE, parts |-> f.at])) \in ALLOWED_EXECUTABLE_SUFFIXES }

\* the directory a file is in
DirOf(f) == SubSeq(f.at, 1, Len(f.at) - 1)

\* the lists a set can be put in
RECURSIVE Orders(_)
Orders(S) ==
    IF S = {} THEN { <<>> }
    ELSE UNION { { <<x>> \o rest : rest \in Orders(S \ {x}) } : x \in S }

\* the directories right below top that hold files of S
SubDirs(S, top) == { SubSeq(f.at, 1, Len(top) + 1) : f \in { g \in S : DirOf(g) # top } }

\* the lists os.walk(top) can read the files S below top in: the files of
\* top itself in any order, then the directories below it in any order,
\* each with all below it before the next
RECURSIVE WalkOrders(_, _)
RECURSIVE WalkEach(_, _)
WalkOrders(S, top) ==
    { own \o below :
        own \in Orders({ f \in S : DirOf(f) = top }),
        below \in WalkEach(S, ListOf(SubDirs(S, top))) }

\* the walks of the directories `dirs`, taken in any order
WalkEach(S, dirs) ==
    IF dirs = <<>> THEN { <<>> }
    ELSE UNION { { first \o rest :
                     first \in WalkOrders({ f \in S : IsBelow(f.at, dirs[k]) }, dirs[k]),
                     rest \in WalkEach(S, SubSeq(dirs, 1, k - 1)
                                           \o SubSeq(dirs, k + 1, Len(dirs))) } :
                 k \in 1..Len(dirs) }

\* a file found by the walk, as the picker sees it
AsCandidate(f) == [path |-> AbsStr(f.at), size |-> f.size, stat_ok |-> TRUE]

\* _find_executables: what it can return
FindExecutables(t, directory) ==
    { [i \in 1..Len(s) |-> AsCandidate(s[i])] : s \in WalkOrders(ExecutableFiles(t, directory), directory) }

(***************************************************************************)
(* The installer: uploads, the place of an install, and its result.  An    *)
(* archive is [valid, dirs, files], the members by their parts in the      *)
(* archive; for one zipfile cannot read, files is what it wrote before it  *)
(* raised BadZipFile.                                                      *)
(***************************************************************************)

\* the most installs that succeed in one run
MaxInstalled == 2

\* the records after which no more of the racing installs begins
MaxRaced == 1

\* Foo/Foo.exe, Foo/uninstall.exe
zip_wrapped ==
    [valid |-> TRUE, dirs |-> { <<n_Foo>> },
     files |-> { [at |-> <<n_Foo, n_FooExe>>, size |-> 2048],
                 [at |-> <<n_Foo, n_uninst>>, size |-> 512] }]

\* Foo.exe, r.txt
zip_flat ==
    [valid |-> TRUE, dirs |-> {},
     files |-> { [at |-> <<n_FooExe>>, size |-> 2048], [at |-> <<n_rtxt>>, size |-> 10] }]

\* r.txt
zip_noexe ==
    [valid |-> TRUE, dirs |-> {}, files |-> { [at |-> <<n_rtxt>>, size |-> 10] }]

\* Foo/Foo/x.exe: the wrapper holds an entry of its own name
zip_self ==
    [valid |-> TRUE, dirs |-> { <<n_Foo>>, <<n_Foo, n_Foo>> },
     files |-> { [at |-> <<n_Foo, n_Foo, n_xexe>>, size |-> 100] }]

\* Foo/sub/x.exe
zip_deep ==
    [valid |-> TRUE, dirs |-> { <<n_Foo>>, <<n_Foo, n_sub>> },
     files |-> { [at |-> <<n_Foo, n_sub, n_xexe>>, size |-> 100] }]

\* no member at all
zip_empty == [valid |-> TRUE, dirs |-> {}, files |-> {}]

\* not a zip file
zip_bad == [valid |-> FALSE, dirs |-> {}, files |-> { [at |-> <<n_rtxt>>, size |-> 10] }]

n_v == << "v" >>

\* v/v/.../v, k deep
Nest(k) == [i \in 1..k |-> n_v]

\* the directories at the top of zip_many
Branches == { << "a" >>, << "b" >>, << "c" >> }

\* a/x.exe, a/v/x.exe, a/v/v/x.exe and so on, seven in each of a, b and c,
\* the last one in c being Foo.exe: more executables than a response lists
zip_many ==
    [valid |-> TRUE,
     dirs  |-> { <<b>> \o Nest(k) : b \in Branches, k \in 0..6 },
     files |-> { [at |-> <<b>> \o Nest(k) \o <<n_xexe>>, size |-> 100] :
                   b \in Branches, k \in 0..5 }
               \cup { [at |-> <<b>> \o Nest(6) \o <<n_xexe>>, size |-> 100] :
                        b \in Branches \ { << "c" >> } }
               \cup { [at |-> << << "c" >> >> \o Nest(6) \o <<n_FooExe>>, size |-> 2048] }]

ArchiveNames == { "wrapped", "flat", "noexe", "self", "deep", "empty", "bad" }

ArchiveOf(name) ==
    CASE name = "wrapped" -> zip_wrapped
      [] name = "flat"    -> zip_flat
      [] name = "noexe"   -> zip_noexe
      [] name = "self"    -> zip_self
      [] name = "deep"    -> zip_deep
      [] name = "empty"   -> zip_empty
      [] name = "many"    -> zip_many
      [] OTHER            -> zip_bad

\* the size of the uploaded bytes
ArchiveSize(archive) == 22 + Cardinality(archive.files)

\* file.filename of the uploads
UploadNames ==
    { <<>>,
      <<"F","o","o",".","z","i","p">>,
      <<"F","o","o","_","1",".","Z","I","P">>,
      <<"F","o","o",".","r","a","r">> }

\* str(counter)
RECURSIVE DecimalStr(_)
DecimalStr(n) ==
    IF n < 10 THEN << <<"0","1","2","3","4","5","6","7","8","9">>[n + 1] >>
    ELSE DecimalStr(n \div 10) \o DecimalStr(n % 10)

\* f"{software_name}_{counter}"
Suffixed(software_name, counter) == software_name \o <<"_">> \o DecimalStr(counter)

\* base_dir / name
Join(p, name) == [p EXCEPT !.parts = Append(@, name)]

\* where the tree holds a path
TreeAt(p) == IF p.abs THEN p.parts ELSE Cwd \o p.parts

\* the loop `while (base_dir / f"{software_name}_{counter}").exists(): counter += 1`
RECURSIVE FirstFreeCounter(_, _, _, _)
FirstFreeCounter(t, base_dir, software_name, counter) ==
    IF Exists(t, TreeAt(Join(base_dir, Suffixed(software_name, counter))))
    THEN FirstFreeCounter(t, base_dir, software_name, counter + 1)
    ELSE counter

\* the mutant of InstallName that never appends a counter
InstallNameAsUploaded(t, base_dir, software_name) == software_name

\* upload_and_install, lines 272-280: the name of the install directory and
\* of the record
InstallName(t, base_dir, software_name) ==
    IF Exists(t, TreeAt(Join(base_dir, software_name)))
    THEN Suffixed(software_name, FirstFreeCounter(t, base_dir, software_name, 1))
    ELSE software_name

\* f"_temp_{filename}"
TempName(filename) == <<"_","t","e","m","p","_">> \o filename

\* _get_install_base_dir: Path(dirs[0]) of the stored JSON list; a dict
\* entry makes Path raise TypeError, which is caught, and so does an empty
\* list fall through to DEFAULT_ALLOWED_DIRS[0], which raises IndexError on
\* the empty default (and TypeError, uncaught, on a default of dict entries)
GetInstallBaseDir(stored) ==
    IF stored # <<>> /\ stored[1].kind = "str"
    THEN [raised |-> FALSE, path |-> PathOf(stored[1].path)]
    ELSE [raised |-> TRUE, path |-> NoPath]

\* raise HTTPException(status_code, detail) in the installer, and the 500
\* FastAPI answers for an exception no handler caught
InstallError(status, kind) ==
    [status |-> status, kind |-> kind, name |-> <<>>, executable_path |-> <<>>,
     install_dir |-> <<>>, description |-> <<>>, exe_candidates |-> <<>>, message |-> ""]

NoInstallResult == InstallError(0, "none")

\* str(e) for e in executables[:20]
CandidateStrings(executables) ==
    [i \in 1..(IF Len(executables) < 20 THEN Len(executables) ELSE 20) |-> executables[i].path]

\* the mutant of InstallerUploadResponse whose message is the same with and
\* without an executable
InstallerUploadResponsePlain(name, exe_path_str, install_dir, description, exe_candidates) ==
    [status |-> 201, kind |-> "Installed", name |-> name, executable_path |-> exe_path_str,
     install_dir |-> PathStr(install_dir), description |-> description,
     exe_candidates |-> exe_candidates, message |-> "done"]

\* InstallerUploadResponse(success=True, ...)
InstallerUploadResponse(name, exe_path_str, install_dir, description, exe_candidates) ==
    [status |-> 201, kind |-> "Installed", name |-> name, executable_path |-> exe_path_str,
     install_dir |-> PathStr(install_dir), description |-> description,
     exe_candidates |-> exe_candidates,
     message |-> IF exe_path_str # <<>> THEN "done" ELSE "manual"]

\* the mutant of ValidateUpload that checks only that there is a name
ValidateUploadNameOnly(filename) ==
    IF filename = <<>> THEN InstallError(400, "EmptyName") ELSE NoInstallResult

\* upload_and_install, lines 252-265: the checks on the file name
ValidateUpload(filename) ==
    IF filename = <<>> THEN InstallError(400, "EmptyName")
    ELSE IF Lower(PathSuffix(PathOf(filename))) # <<".","z","i","p">>
         THEN InstallError(400, "BadSuffix")
         ELSE NoInstallResult

\* upload_and_install, lines 317-326: exe_path_str and exe_candidates
ChooseExecutable(executables, software_name) ==
    IF executables = <<>>
    THEN [exe_path_str |-> <<>>, exe_candidates |-> <<>>]
    ELSE [exe_path_str |-> IF HeuristicPick(executables, software_name).found
                           THEN HeuristicPick(executables, software_name).exe.path
                           ELSE executables[1].path,
          exe_candidates |-> CandidateStrings(HeuristicPick(executables, software_name).after)]

\* what the description generator does: LLM not configured, an exception
\* (a timeout is one), or a text
LlmOutcomes == { "unconfigured", "raised", "text" }

\* _generate_description_via_llm
GenerateDescription(llm) == IF llm = "text" THEN <<"d">> ELSE <<>>

\* PortableSoftware(name=..., executable_path=..., description=description or None)
NewSoftware(software_name, exe_path_str, description) ==
    [name |-> software_name, executable_path |-> exe_path_str, description |-> description]

\* the whitelist root
InstallRoot == <<n_data, n_app2>>

\* the root is missing
TreeBare == [dirs |-> { <<>>, <<n_data>> }, files |-> {}]

\* the root is empty
TreeBase == [dirs |-> Ancestors(InstallRoot), files |-> {}]

\* Foo and Foo_2 are there already
TreeTaken ==
    [dirs |-> Ancestors(InstallRoot)
              \cup { Append(InstallRoot, n_Foo), Append(InstallRoot, Suffixed(n_Foo, 2)) },
     files |-> {}]

InstallTrees == { TreeBare, TreeBase, TreeTaken }

(***************************************************************************)
(* State                                                                   *)
(***************************************************************************)

VARIABLES
    disk,       \* the filesystem the backend runs on, by its name
    setting,    \* the JSON list stored in system_settings['allowed_dirs']
    software,   \* the rows of portable_software
    dropped,    \* the paths the most recent allowed_dirs update took off the list
    req,        \* the OS-bridge request being served, and what it did
    pick,       \* a call of the heuristic picker: its arguments and result
    tree,       \* the directories and files at and below the install root
    ins,        \* the install requests being served, and what each did
    scan        \* the scan request being served, and the results of the scans

\* the filesystem as it is now
fs == FsOf(disk)

vars == <<disk, setting, software, dropped, req, pick, tree, ins, scan>>

(***************************************************************************)
(* The steps of upload_and_install.  A step ends where the handler awaits; *)
(* r is the request: the handler's variables and what the request did      *)
(* (stage: the last step it entered; failed: the step that raised;         *)
(* fault: whether the filesystem or the store made it raise; occupied:     *)
(* the names in the base directory when the install chose its name;        *)
(* canUnlink: whether unlink() of the temporary archive succeeds, which it *)
(* does not on Windows while another request has the file open;            *)
(* extracted: the upload whose bytes the temporary archive held when it    *)
(* was extracted).                                                         *)
(***************************************************************************)

IdleInstall ==
    [pc |-> "idle", filename |-> <<>>, archive |-> "", stem |-> <<>>,
     software_name |-> <<>>, base_dir |-> NoPath, install_dir |-> NoPath,
     temp_archive |-> NoPath, occupied |-> {}, wroteTemp |-> FALSE, madeDir |-> FALSE,
     stage |-> "none", failed |-> "none", fault |-> FALSE,
     executables |-> <<>>, exe_path_str |-> <<>>, exe_candidates |-> <<>>,
     description |-> <<>>, llm |-> "none", index |-> "none",
     rowsBefore |-> 0, canUnlink |-> TRUE, extracted |-> "", res |-> NoInstallResult]

\* lines 252-268: the upload is received and its name checked; the body of
\* an upload that is turned away is never read
Received(filename, archive, v, rows) ==
    [IdleInstall EXCEPT !.filename = filename,
                        !.archive = IF v = NoInstallResult THEN archive ELSE "",
                        !.stage = "validate", !.rowsBefore = rows,
                        !.stem = IF v = NoInstallResult THEN PathStem(PathOf(filename)) ELSE <<>>,
                        !.software_name = IF v = NoInstallResult
                                          THEN PathStem(PathOf(filename)) ELSE <<>>,
                        !.failed = IF v = NoInstallResult THEN "none" ELSE "validate",
                        !.pc = IF v = NoInstallResult THEN "await_base" ELSE "done",
                        !.res = v]

\* the mutant of RemoveTemp that leaves the temporary archive
RemoveTempSkipped(t, r) == t

\* lines 381-385, the finally clause: the temporary archive is removed; an
\* OSError of unlink() is passed over
RemoveTemp(t, r) ==
    IF Exists(t, TreeAt(r.temp_archive)) /\ r.canUnlink
    THEN Unlink(t, TreeAt(r.temp_archive)) ELSE t

\* the mutant of CleanupInstallDir that leaves the directory
CleanupNothing(t, r) == t

\* lines 372-373: the directory of the install is removed if it exists
CleanupInstallDir(t, r) ==
    IF Exists(t, TreeAt(r.install_dir)) THEN RmTree(t, TreeAt(r.install_dir)) ELSE t

\* lines 370-378 and the finally clause: an exception other than
\* HTTPException left the try block at `stage`
Failed(t, r, stage, fault) ==
    [req |-> [r EXCEPT !.pc = "done", !.stage = stage, !.failed = stage, !.fault = fault,
                       !.res = InstallError(500, "InstallFailed")],
     tree |-> RemoveTemp(CleanupInstallDir(t, r), r)]

\* lines 298-304 and the finally clause: BadZipFile
RejectedArchive(t, r) ==
    [req |-> [r EXCEPT !.pc = "done", !.stage = "extract", !.failed = "extract",
                       !.res = InstallError(400, "BadArchive")],
     tree |-> RemoveTemp(RmTree(t, TreeAt(r.install_dir)), r)]

\* the names that requests have chosen and not yet made a directory for
ChosenNames == { ins[k].software_name : k \in { j \in DOMAIN ins : ins[j].pc = "await_read" } }

\* the mutant of Placed that keeps the names chosen by the requests under
\* way apart: a name another request has chosen counts as taken
PlacedApart(t, r, base_dir, name) ==
    [r EXCEPT !.stage = "place", !.base_dir = base_dir,
              !.software_name = IF name \in ChosenNames THEN Append(name, "'") ELSE name,
              !.install_dir = Join(base_dir, IF name \in ChosenNames
                                             THEN Append(name, "'") ELSE name),
              !.temp_archive = Join(base_dir, TempName(r.filename)),
              !.occupied = Iterdir(t, TreeAt(base_dir))]

\* lines 271-283: the base directory, the name of the install and the paths
Placed(t, r, base_dir, name) ==
    [r EXCEPT !.stage = "place", !.base_dir = base_dir, !.software_name = name,
              !.install_dir = Join(base_dir, name),
              !.temp_archive = Join(base_dir, TempName(r.filename)),
              !.occupied = Iterdir(t, TreeAt(base_dir))]

\* lines 286-289: base_dir.mkdir and open(temp_archive, "wb"), up to
\* `await file.read()`; io is FALSE when one of them raises OSError
OpenTemp(t, r, io) ==
    IF io
    THEN [req |-> [r EXCEPT !.pc = "await_read", !.stage = "save", !.wroteTemp = TRUE],
          tree |-> WriteFile(MkdirParents(t, TreeAt(r.base_dir)), TreeAt(r.temp_archive), 0, "")]
    ELSE Failed(t, r, "save", TRUE)

\* the install found its executables and awaits the description
Searched(r, t, executables, chosen) ==
    [req |-> [r EXCEPT !.pc = "await_llm", !.stage = "find",
                       !.executables = executables,
                       !.exe_path_str = chosen.exe_path_str,
                       !.exe_candidates = chosen.exe_candidates],
     tree |-> t]

\* the mutant of Normalised that looks for the executables before the
\* wrapper is removed
NormalisedSearchFirst(t, r, hoisted) ==
    IF ~hoisted.ok
    THEN { Failed(hoisted.tree, r, "hoist", FALSE) }
    ELSE { Searched(r, hoisted.tree, executables,
                    ChooseExecutable(executables, r.software_name)) :
           executables \in FindExecutables(t, TreeAt(r.install_dir)) }

\* lines 306-326: the wrapper is removed and the executable chosen; the
\* result for each list _find_executables can return
Normalised(t, r, hoisted) ==
    IF ~hoisted.ok
    THEN { Failed(hoisted.tree, r, "hoist", FALSE) }
    ELSE { Searched(r, hoisted.tree, executables,
                    ChooseExecutable(executables, r.software_name)) :
           executables \in FindExecutables(hoisted.tree, TreeAt(r.install_dir)) }

\* what can happen from the write of the upload to the search: nothing
\* raises; the write raises; zipfile raises BadZipFile on what is no zip
\* file, or OSError, before or after it wrote the members; a move raises
\* OSError
ExtractOutcomes(archive) ==
    { [saved |-> FALSE, outcome |-> "none", partial |-> FALSE, moved |-> FALSE] }
    \cup (IF archive.valid
          THEN { [saved |-> TRUE, outcome |-> "ok", partial |-> FALSE, moved |-> TRUE],
                 [saved |-> TRUE, outcome |-> "ok", partial |-> FALSE, moved |-> FALSE],
                 [saved |-> TRUE, outcome |-> "io_error", partial |-> FALSE, moved |-> FALSE],
                 [saved |-> TRUE, outcome |-> "io_error", partial |-> TRUE, moved |-> FALSE] }
          ELSE { [saved |-> TRUE, outcome |-> "bad_zip", partial |-> FALSE, moved |-> FALSE],
                 [saved |-> TRUE, outcome |-> "bad_zip", partial |-> TRUE, moved |-> FALSE] })

\* the mutant of Extracted that leaves the extracted members where they are
ExtractedUnhoisted(t, r, outcome, partial, moved) ==
    IF outcome = "bad_zip"
    THEN { RejectedArchive(IF partial THEN ExtractAll(t, TreeAt(r.install_dir), ArchiveOf(r.archive))
                           ELSE t, r) }
    ELSE IF outcome = "io_error"
    THEN { Failed(IF partial THEN ExtractAll(t, TreeAt(r.install_dir), ArchiveOf(r.archive))
                  ELSE t, r, "extract", TRUE) }
    ELSE IF ~moved
    THEN { Failed(ExtractAll(t, TreeAt(r.install_dir), ArchiveOf(r.archive)), r, "hoist", TRUE) }
    ELSE Normalised(ExtractAll(t, TreeAt(r.install_dir), ArchiveOf(r.archive)), r,
                    [ok |-> TRUE,
                     tree |-> ExtractAll(t, TreeAt(r.install_dir), ArchiveOf(r.archive))])

\* lines 294-326: install_dir.mkdir, the extraction and what follows up to
\* the await of the description; `partial` is whether the members were
\* written before zipfile raised, moved is FALSE when a move raises OSError
Extracted(t, r, outcome, partial, moved) ==
    IF outcome = "bad_zip"
    THEN { RejectedArchive(IF partial THEN ExtractAll(t, TreeAt(r.install_dir), ArchiveOf(r.archive))
                           ELSE t, r) }
    ELSE IF outcome = "io_error"
    THEN { Failed(IF partial THEN ExtractAll(t, TreeAt(r.install_dir), ArchiveOf(r.archive))
                  ELSE t, r, "extract", TRUE) }
    ELSE IF ~moved
    THEN { Failed(ExtractAll(t, TreeAt(r.install_dir), ArchiveOf(r.archive)), r, "hoist", TRUE) }
    ELSE Normalised(ExtractAll(t, TreeAt(r.install_dir), ArchiveOf(r.archive)), r,
                    Hoist(ExtractAll(t, TreeAt(r.install_dir), ArchiveOf(r.archive)),
                          TreeAt(r.install_dir)))

\* the size of the file at p
SizeAt(t, p) == (CHOOSE f \in t.files : f.at = p).size

\* f.write(content) on the handle opened at line 289, and its close: the
\* bytes go to the start of the file the handle was opened on.  Bytes
\* another handle wrote past their end stay ("mixed"), and a file whose
\* name was unlinked meanwhile gets no name back.
WriteOpened(t, p, size, data) ==
    IF ~Exists(t, p) THEN t
    ELSE IF SizeAt(t, p) > size THEN WriteFile(t, p, SizeAt(t, p), "mixed")
    ELSE WriteFile(t, p, size, data)

\* what the temporary archive holds when zipfile opens it by its name
Holds(t, p) ==
    IF ~Exists(t, p) THEN "missing" ELSE (CHOOSE f \in t.files : f.at = p).data

\* lines 294-304 for a temporary archive that does not hold the upload:
\* without the file zipfile raises FileNotFoundError; the start of one
\* upload before the end of another is no zip file, and what zipfile wrote
\* before it raised BadZipFile goes with the directory
ExtractedOther(t, r) ==
    IF r.extracted = "missing"
    THEN { Failed(t, r, "extract", FALSE) }
    ELSE { RejectedArchive(t, r) }

\* lines 290-294: the upload is written to the temporary archive and the
\* directory of the install is made; saved is FALSE when the write raises
Saved(t, r, saved, outcome, partial, moved) ==
    IF ~saved
    THEN { Failed(t, r, "save", TRUE) }
    ELSE IF Holds(WriteOpened(t, TreeAt(r.temp_archive),
                              ArchiveSize(ArchiveOf(r.archive)), r.archive),
                  TreeAt(r.temp_archive)) # r.archive
    THEN ExtractedOther(MkdirParents(WriteOpened(t, TreeAt(r.temp_archive),
                                         ArchiveSize(ArchiveOf(r.archive)), r.archive),
                                     TreeAt(r.install_dir)),
                        [r EXCEPT !.madeDir = TRUE, !.stage = "extract",
                                  !.extracted = Holds(WriteOpened(t, TreeAt(r.temp_archive),
                                         ArchiveSize(ArchiveOf(r.archive)), r.archive),
                                                      TreeAt(r.temp_archive))])
    ELSE Extracted(MkdirParents(WriteOpened(t, TreeAt(r.temp_archive),
                                            ArchiveSize(ArchiveOf(r.archive)), r.archive),
                                TreeAt(r.install_dir)),
                   [r EXCEPT !.madeDir = TRUE, !.stage = "extract", !.extracted = r.archive],
                   outcome, partial, moved)

\* the mutant of Recorded that lets an exception of the description
\* generator or of the index update leave the handler
RecordedCollaboratorsFatal(t, r, table, llm, stored, index) ==
    IF stored /\ llm # "raised" /\ index
    THEN [req |-> [r EXCEPT !.pc = "done", !.stage = "respond", !.llm = llm,
                            !.description = GenerateDescription(llm), !.index = "ok",
                            !.res = InstallerUploadResponse(r.software_name, r.exe_path_str,
                                        r.install_dir, GenerateDescription(llm),
                                        r.exe_candidates)],
          tree |-> RemoveTemp(t, r),
          table |-> Append(table, NewSoftware(r.software_name, r.exe_path_str,
                                              GenerateDescription(llm)))]
    ELSE [req |-> [Failed(t, r, "store", ~stored).req EXCEPT !.llm = llm],
          tree |-> Failed(t, r, "store", ~stored).tree,
          table |-> table]

\* lines 329-366 and the finally clause: the description, the record, the
\* index update and the response; stored is FALSE when flush, refresh or
\* commit raises, index is FALSE when the index update raises
Recorded(t, r, table, llm, stored, index) ==
    IF stored
    THEN [req |-> [r EXCEPT !.pc = "done", !.stage = "respond", !.llm = llm,
                            !.description = GenerateDescription(llm),
                            !.index = IF index THEN "ok" ELSE "raised",
                            !.res = InstallerUploadResponse(r.software_name, r.exe_path_str,
                                        r.install_dir, GenerateDescription(llm),
                                        r.exe_candidates)],
          tree |-> RemoveTemp(t, r),
          table |-> Append(table, NewSoftware(r.software_name, r.exe_path_str,
                                              GenerateDescription(llm)))]
    ELSE [req |-> [Failed(t, r, "store", TRUE).req EXCEPT !.llm = llm],
          tree |-> Failed(t, r, "store", TRUE).tree,
          table |-> table]

(***************************************************************************)
(* scan_and_import.  The session of the request is "active", or "inactive" *)
(* after a flush raised: until rollback() is called every statement on it  *)
(* raises PendingRollbackError.                                            *)
(***************************************************************************)

\* the most scans one run makes
MaxScans == 2

\* the characters of the names, in the order of their code points
CharOrder ==
    <<" ", "-", ".", "0","1","2","3","4","5","6","7","8","9",
      "A","B","C","D","E","F","G","H","I","J","K","L","M",
      "N","O","P","Q","R","S","T","U","V","W","X","Y","Z", "_",
      "a","b","c","d","e","f","g","h","i","j","k","l","m",
      "n","o","p","q","r","s","t","u","v","w","x","y","z">>

CharCode(c) == CHOOSE i \in 1..Len(CharOrder) : CharOrder[i] = c

\* a < b for two strings
RECURSIVE StrLess(_, _)
StrLess(a, b) ==
    IF b = <<>> THEN FALSE
    ELSE IF a = <<>> THEN TRUE
    ELSE IF Head(a) = Head(b) THEN StrLess(Tail(a), Tail(b))
    ELSE CharCode(Head(a)) < CharCode(Head(b))

\* sorted(...) of a set of names
RECURSIVE SortedNames(_)
SortedNames(S) ==
    IF S = {} THEN <<>>
    ELSE LET least == CHOOSE x \in S : \A y \in S \ {x} : StrLess(x, y)
         IN <<least>> \o SortedNames(S \ {least})

\* lines 414-423: the directories to scan.  Path(d) raises TypeError on a
\* dict entry, the except clause swallows it and scan_dirs stays empty; an
\* empty string is skipped; the default list is used when nothing is left
ScanDirsOf(stored) ==
    IF \E i \in 1..Len(stored) : stored[i].kind = "dict"
    THEN [i \in 1..Len(DEFAULT_ALLOWED_DIRS) |-> PathOf(DEFAULT_ALLOWED_DIRS[i].path)]
    ELSE IF SelectSeq(stored, LAMBDA d : d.path # <<>>) = <<>>
         THEN [i \in 1..Len(DEFAULT_ALLOWED_DIRS) |-> PathOf(DEFAULT_ALLOWED_DIRS[i].path)]
         ELSE [i \in 1..Len(SelectSeq(stored, LAMBDA d : d.path # <<>>)) |->
                  PathOf(SelectSeq(stored, LAMBDA d : d.path # <<>>)[i].path)]

\* lines 426-427: existing_paths
ExistingPaths(table) ==
    { table[i].executable_path : i \in 1..Len(table) } \ { <<>> }

\* lines 440-442: the first-level subdirectories of one base directory, sorted
SubdirsOf(t, base_dir) ==
    LET names == SortedNames({ n \in Iterdir(t, base_dir) : Append(base_dir, n) \in t.dirs })
    IN [i \in 1..Len(names) |-> Append(base_dir, names[i])]

\* lines 434-442: the subdirectories the two loops visit, in order
RECURSIVE SubdirsToVisit(_, _)
SubdirsToVisit(t, scan_dirs) ==
    IF scan_dirs = <<>> THEN <<>>
    ELSE (IF TreeAt(Head(scan_dirs)) \in t.dirs THEN SubdirsOf(t, TreeAt(Head(scan_dirs)))
          ELSE <<>>)
         \o SubdirsToVisit(t, Tail(scan_dirs))

\* lines 449-454: exe_path_str of a subdirectory
ScanExecutable(executables, software_name) ==
    IF executables = <<>> THEN <<>>
    ELSE IF HeuristicPick(executables, software_name).found
         THEN HeuristicPick(executables, software_name).exe.path
         ELSE executables[1].path

\* the rows of portable_software with this name
RowsNamed(table, software_name) ==
    { i \in 1..Len(table) : table[i].name = software_name }

IdleScan ==
    [pc |-> "idle", run |-> 0, todo |-> <<>>, found |-> 0, existing_paths |-> {},
     session |-> "active", imported |-> 0, skipped |-> 0, failed |-> 0,
     details |-> <<>>, history |-> <<>>]

\* lines 410-432: the scan after its two reads of the store
ScanStarted(s, t, stored, table) ==
    [s EXCEPT !.pc = "visiting", !.run = @ + 1,
              !.todo = SubdirsToVisit(t, ScanDirsOf(stored)),
              !.found = Len(SubdirsToVisit(t, ScanDirsOf(stored))),
              !.existing_paths = ExistingPaths(table),
              !.session = "active", !.imported = 0, !.skipped = 0, !.failed = 0,
              !.details = <<>>]

\* one entry of `details`; own is whether it was a statement for this
\* subdirectory itself that the store failed on
Detail(subdir, status, reason, own) ==
    [name |-> subdir[Len(subdir)], status |-> status, reason |-> reason, own |-> own]

\* the scan after a subdirectory was skipped
Skipped(s, table, subdir, reason) ==
    [scan |-> [s EXCEPT !.todo = Tail(@), !.skipped = @ + 1,
                        !.details = Append(@, Detail(subdir, "skipped", reason, FALSE))],
     table |-> table]

\* lines 512-517: the scan after the visit of a subdirectory raised
FailedVisit(s, table, subdir, reason, own, session) ==
    [scan |-> [s EXCEPT !.todo = Tail(@), !.failed = @ + 1, !.session = session,
                        !.details = Append(@, Detail(subdir, "failed", reason, own))],
     table |-> table]

\* lines 487-510: the record is written; the scan after it
Imported(s, table, subdir, exe_path_str, description) ==
    [scan |-> [s EXCEPT !.todo = Tail(@), !.imported = @ + 1,
                        !.existing_paths = @ \cup { exe_path_str },
                        !.details = Append(@, Detail(subdir, "imported", "", FALSE))],
     table |-> Append(table, NewSoftware(subdir[Len(subdir)], exe_path_str, description))]

\* lines 444-517: the body of the loop for one subdirectory; written is
\* FALSE when the flush of the new record raises
VisitSubdir(s, table, subdir, exe_path_str, llm, written) ==
    IF exe_path_str # <<>> /\ exe_path_str \in s.existing_paths
    THEN Skipped(s, table, subdir, "path")
    ELSE IF s.session = "inactive"
    THEN FailedVisit(s, table, subdir, "session", FALSE, "inactive")
    ELSE IF Cardinality(RowsNamed(table, subdir[Len(subdir)])) > 1
    THEN FailedVisit(s, table, subdir, "rows", TRUE, "active")
    ELSE IF Cardinality(RowsNamed(table, subdir[Len(subdir)])) = 1
    THEN Skipped(s, table, subdir, "name")
    ELSE IF ~written
    THEN FailedVisit(s, table, subdir, "flush", TRUE, "inactive")
    ELSE Imported(s, table, subdir, exe_path_str, GenerateDescription(llm))

\* lines 519-526: ScanDirsResponse, kept with those of the earlier scans
ScanFinished(s) ==
    [s EXCEPT !.pc = "done",
              !.history = Append(@, [imported |-> s.imported, skipped |-> s.skipped,
                                     failed |-> s.failed, found |-> s.found])]

\* no request is being served.  Besides the handler's own variables
\* (resolved, res) the record keeps what the request did: whether resolve()
\* and the whitelist read were reached, the stored list it read (and what
\* the most recent update had taken off it), how often
\* Popen and ShellExecuteW were called and what they did, and how the
\* last_used_at update went.
IdleReq ==
    [op |-> "none", raw |-> <<>>, pc |-> "idle", resolved |-> NoPath,
     didResolve |-> FALSE, wlRead |-> FALSE, wlAtRead |-> <<>>,
     droppedAtRead |-> {},
     popens |-> 0, elevs |-> 0, started |-> "none", child |-> "none",
     popen |-> [raised |-> FALSE, winerror |-> 0],
     shell |-> [raised |-> FALSE, ret |-> 0],
     ts |-> "none", res |-> NoResult]

\* no picker call is set up
IdlePick ==
    [executables |-> <<>>, software_name |-> <<>>, pc |-> "idle",
     found |-> FALSE, exe |-> NoCandidate, after |-> <<>>]

\* the allowed_dirs row at startup: what _seed_default_settings inserts, or
\* a legacy list of path strings kept from an older version
InitialSettings ==
    { serialize_allowed_dirs(DEFAULT_ALLOWED_DIRS),
      << [kind |-> "str", path |-> AbsStr(<<n_data, n_app2>>), type |-> ""] >> }

Init ==
    /\ disk \in FsNames
    /\ setting \in InitialSettings
    /\ software \in SoftwareTables
    /\ dropped = {}
    /\ req = IdleReq
    /\ pick = IdlePick
    /\ tree = TreeBase
    /\ ins = <<>>
    /\ scan = IdleScan

(***************************************************************************)
(* OS bridge requests.  A request is served in steps that end where the    *)
(* handler awaits the database; other requests run between the steps.      *)
(***************************************************************************)

\* the request after _sanitize_and_resolve returned or raised
Sanitized(op, raw, san) ==
    [IdleReq EXCEPT !.op = op, !.raw = raw,
                    !.didResolve = san.resolved,
                    !.resolved = san.path,
                    !.pc = IF san.ok THEN "await_wl" ELSE "done",
                    !.res = san.res]

\* launch_executable / open_directory up to the first await:
\* _sanitize_and_resolve(req.target_path)
Begin(op, raw) ==
    /\ req.pc = "idle"
    /\ req' = Sanitized(op, raw, SanitizeAndResolve(fs, raw))
    /\ UNCHANGED <<disk, setting, software, dropped, pick, tree, ins, scan>>

LaunchBegin == \E raw \in LaunchTargets : Begin("launch", raw)

OpenDirBegin == \E raw \in OpenDirTargets : Begin("open_dir", raw)

\* the request after the spawn: sp is what StartProcess did
Spawned(sp, popen, shell) ==
    [req EXCEPT !.wlRead = TRUE, !.wlAtRead = setting,
                !.droppedAtRead = dropped,
                !.popens = sp.popens, !.elevs = sp.elevs,
                !.started = sp.started,
                !.child = IF sp.started = "none" THEN "none" ELSE "running",
                !.popen = popen,
                !.shell = IF sp.elevs > 0 THEN shell ELSE req.shell,
                !.pc = IF sp.started = "none" THEN "done" ELSE "await_ts",
                !.res = sp.res]

\* launch_executable after the three checks: a failed check is raised, else
\* the process is started
LaunchAfterChecks(chk) ==
    IF chk # NoResult
    THEN req' = [req EXCEPT !.wlRead = TRUE, !.wlAtRead = setting,
                !.droppedAtRead = dropped,
                            !.pc = "done", !.res = chk]
    ELSE \E platform \in Platforms :
         \E popen \in PopenOutcomes(platform) :
         \E shell \in ShellOutcomes :
            req' = Spawned(StartProcess(platform, popen, shell), popen, shell)

\* launch_executable from the whitelist read to the spawn (and the elevated
\* retry): no await in between
LaunchSpawn ==
    /\ req.pc = "await_wl" /\ req.op = "launch"
    /\ LaunchAfterChecks(LaunchChecks(fs, req.resolved, GetAllowedDirs(fs, setting)))
    /\ UNCHANGED <<disk, setting, software, dropped, pick, tree, ins, scan>>

\* what launch_executable answers after the update u: an exception that
\* leaves the inner try is caught by the handlers of the outer one
LaunchAnswer(u) ==
    IF u.raised
    THEN IF req.started = "elevated"
         THEN HttpError(500, "ElevationFailed")
         ELSE HttpError(500, "InternalError")
    ELSE ActionResponse(IF req.started = "elevated" THEN "StartedElevated" ELSE "Started",
                        req.resolved)

\* the response of launch_executable and get_db's commit
LaunchAfterUpdate(u, final) ==
    /\ software' = u.table
    /\ req' = [req EXCEPT !.pc = "done", !.ts = u.how,
                          !.res = GetDbTeardown(LaunchAnswer(u), u.dirty, final)]

\* the program the request started exits; the handler holds no handle of
\* it and nothing tells it
ChildExit ==
    /\ req.child = "running"
    /\ req' = [req EXCEPT !.child = "exited"]
    /\ UNCHANGED <<disk, setting, software, dropped, pick, tree, ins, scan>>

\* the mutant of LaunchFinish that goes on only when the program it started
\* has exited, as after Popen(...).wait()
LaunchFinishAfterExit ==
    /\ req.pc = "await_ts"
    /\ req.child = "exited"
    /\ \E lookup \in StoreOutcomes, commit \in StoreOutcomes, final \in StoreOutcomes :
         LaunchAfterUpdate(UpdateLastUsed(software, PathStr(req.resolved), lookup, commit),
                           final)
    /\ UNCHANGED <<disk, setting, dropped, pick, tree, ins, scan>>

\* launch_executable after the process was started: the last_used_at
\* update, the response, and get_db's commit of the session
LaunchFinish ==
    /\ req.pc = "await_ts"
    /\ \E lookup \in StoreOutcomes, commit \in StoreOutcomes, final \in StoreOutcomes :
         LaunchAfterUpdate(UpdateLastUsed(software, PathStr(req.resolved), lookup, commit),
                           final)
    /\ UNCHANGED <<disk, setting, dropped, pick, tree, ins, scan>>

\* open_directory after the two checks: a failed check is raised, else the
\* file browser is started, and Popen may raise OSError
OpenDirAfterChecks(chk) ==
    \E popenRaised \in BOOLEAN :
        req' = [req EXCEPT !.wlRead = TRUE, !.wlAtRead = setting,
                !.droppedAtRead = dropped, !.pc = "done",
                   !.popens = IF chk = NoResult THEN 1 ELSE 0,
                   !.res = IF chk # NoResult THEN chk
                           ELSE IF popenRaised THEN HttpError(500, "OpenFailure")
                           ELSE ActionResponse("Opened", req.resolved)]

\* open_directory from the whitelist read to the start of the file browser
OpenDirOpen ==
    /\ req.pc = "await_wl" /\ req.op = "open_dir"
    /\ OpenDirAfterChecks(OpenDirChecks(fs, req.resolved, GetAllowedDirs(fs, setting)))
    /\ UNCHANGED <<disk, setting, software, dropped, pick, tree, ins, scan>>

\* the response is sent; the next request can be served
Respond ==
    /\ req.pc = "done"
    /\ req' = IdleReq
    /\ UNCHANGED <<disk, setting, software, dropped, pick, tree, ins, scan>>

\* the paths a stored list names
StoredPaths(stored) == { stored[i].path : i \in 1..Len(stored) }

\* update_allowed_dirs (PUT /api/system/allowed-dirs)
UpdateAllowedDirs ==
    /\ \E payload \in WlPayloads :
         setting' = serialize_allowed_dirs(NormaliseItems(payload))
    /\ dropped' = StoredPaths(setting) \ StoredPaths(setting')
    /\ UNCHANGED <<disk, software, req, pick, tree, ins, scan>>

\* the administrator changes the filesystem; a request sees one filesystem
\* from its start to its response
FsChange ==
    /\ req.pc = "idle"
    /\ \E name \in FsNames \ {disk} : disk' = name
    /\ UNCHANGED <<setting, software, dropped, req, pick, tree, ins, scan>>

Next ==
    \/ LaunchBegin
    \/ LaunchSpawn
    \/ LaunchFinish
    \/ ChildExit
    \/ OpenDirBegin
    \/ OpenDirOpen
    \/ Respond
    \/ UpdateAllowedDirs
    \/ FsChange

Spec == Init /\ [][Next]_vars

\* the event loop resumes a handler whose awaited statement has returned
\* or raised, and sends the response of a handler that has ended; nothing
\* makes a started program exit
SpecFair == Spec /\ WF_vars(LaunchFinish) /\ WF_vars(Respond)

(***************************************************************************)
(* The heuristic picker on its own: every candidate list and program name  *)
(* within the bounds, and one call of _heuristic_pick on each              *)
(***************************************************************************)

InitPick ==
    /\ disk = "plain"
    /\ setting = serialize_allowed_dirs(DEFAULT_ALLOWED_DIRS)
    /\ software = <<>>
    /\ dropped = {}
    /\ req = IdleReq
    /\ pick \in { [IdlePick EXCEPT !.executables = e, !.software_name = n, !.pc = "ready"] :
                    e \in CandidateLists, n \in SoftwareNames }
    /\ tree = TreeBase
    /\ ins = <<>>
    /\ scan = IdleScan

\* the call has returned r
PickReturned(p, r) ==
    [p EXCEPT !.pc = "done", !.found = r.found, !.exe = r.exe, !.after = r.after]

\* best_exe = _heuristic_pick(executables, software_name)
PickCall ==
    /\ pick.pc = "ready"
    /\ pick' = PickReturned(pick, HeuristicPick(pick.executables, pick.software_name))
    /\ UNCHANGED <<disk, setting, software, dropped, req, tree, ins, scan>>

NextPick == PickCall

SpecPick == InitPick /\ [][NextPick]_vars

(***************************************************************************)
(* Installs one after the other: every upload, whitelist setting and       *)
(* failure of the filesystem, the store and the collaborators              *)
(***************************************************************************)

\* the allowed_dirs rows the installer meets: the seeded default, lists of
\* entries as update_allowed_dirs stores them, and a legacy list of strings
InstallSettings ==
    { serialize_allowed_dirs(DEFAULT_ALLOWED_DIRS),
      << [kind |-> "dict", path |-> AbsStr(InstallRoot), type |-> DIR_TYPE_SOFTWARE] >>,
      << [kind |-> "dict", path |-> AbsStr(<<n_wl>>), type |-> DIR_TYPE_WORKSPACE],
         [kind |-> "dict", path |-> AbsStr(InstallRoot), type |-> DIR_TYPE_SOFTWARE] >>,
      << [kind |-> "str", path |-> AbsStr(InstallRoot), type |-> ""] >> }

InitInstall ==
    /\ disk = "plain"
    /\ setting \in InstallSettings
    /\ software = <<>>
    /\ dropped = {}
    /\ req = IdleReq
    /\ pick = IdlePick
    /\ tree \in InstallTrees
    /\ ins = << IdleInstall >>
    /\ scan = IdleScan

\* POST /api/installer/upload is received: lines 252-268
InstallBegin(i) ==
    /\ ins[i].pc = "idle"
    /\ Len(software) < MaxInstalled
    /\ \E filename \in UploadNames, archive \in ArchiveNames :
         ins' = [ins EXCEPT ![i] = Received(filename, archive, ValidateUpload(filename),
                                            Len(software))]
    /\ UNCHANGED <<disk, setting, software, dropped, req, pick, tree, scan>>

\* another request has the file at p open: it is between its open() and
\* the end of its `with` block
HeldOpen(i, p) ==
    \E j \in DOMAIN ins : j # i /\ ins[j].pc = "await_read" /\ ins[j].temp_archive = p

\* whether unlink() of p can succeed: always where an open file can be
\* unlinked, and not on Windows while the file is open
UnlinkOutcomes(i, p) == IF HeldOpen(i, p) THEN { TRUE, FALSE } ELSE { TRUE }

\* the request in slot i, and what its unlink() will do
Served(i, canUnlink) == [ins[i] EXCEPT !.canUnlink = canUnlink]

\* the request after a step: what unlink() did shows in the tree only
Answered(r) == [r EXCEPT !.canUnlink = TRUE]

\* the install with its base directory known: the name is chosen and the
\* temporary archive opened
PlaceAt(i, base, io) ==
    IF base.raised
    THEN /\ ins' = [ins EXCEPT ![i] = [@ EXCEPT !.pc = "done", !.stage = "place",
                                                !.failed = "place",
                                                !.res = InstallError(500, "Unhandled")]]
         /\ tree' = tree
    ELSE \E u \in UnlinkOutcomes(i, Join(base.path, TempName(ins[i].filename))) :
         LET o == OpenTemp(tree, Placed(tree, Served(i, u), base.path,
                                        InstallName(tree, base.path, ins[i].software_name)),
                           io)
         IN /\ ins' = [ins EXCEPT ![i] = Answered(o.req)]
            /\ tree' = o.tree

\* lines 271-289, from _get_install_base_dir to `await file.read()`
InstallPlace(i) ==
    /\ ins[i].pc = "await_base"
    /\ \E io \in BOOLEAN : PlaceAt(i, GetInstallBaseDir(setting), io)
    /\ UNCHANGED <<disk, setting, software, dropped, req, pick, scan>>

\* lines 290-326, from the write of the upload to the await of the
\* description, for what the filesystem and zipfile do among `outcomes`
ExtractStep(i, outcomes) ==
    /\ ins[i].pc = "await_read"
    /\ \E x \in outcomes :
       \E u \in UnlinkOutcomes(i, ins[i].temp_archive) :
       \E o \in Saved(tree, Served(i, u), x.saved, x.outcome, x.partial, x.moved) :
         /\ ins' = [ins EXCEPT ![i] = Answered(o.req)]
         /\ tree' = o.tree
    /\ UNCHANGED <<disk, setting, software, dropped, req, pick, scan>>

InstallExtract(i) == ExtractStep(i, ExtractOutcomes(ArchiveOf(ins[i].archive)))

\* lines 329-385, from the description to the response, for what the
\* description generator, the store and the index do
RecordStep(i, llms, stores, indexes) ==
    /\ ins[i].pc = "await_llm"
    /\ \E llm \in llms, stored \in stores, index \in indexes :
       \E u \in UnlinkOutcomes(i, ins[i].temp_archive) :
         LET o == Recorded(tree, Served(i, u), software, llm, stored, index)
         IN /\ ins' = [ins EXCEPT ![i] = Answered(o.req)]
            /\ tree' = o.tree
            /\ software' = o.table
    /\ UNCHANGED <<disk, setting, dropped, req, pick, scan>>

InstallRecord(i) == RecordStep(i, LlmOutcomes, BOOLEAN, BOOLEAN)

\* the response is sent and get_db closes the session
InstallRespond(i) ==
    /\ ins[i].pc = "done"
    /\ ins' = [ins EXCEPT ![i] = IdleInstall]
    /\ UNCHANGED <<disk, setting, software, dropped, req, pick, tree, scan>>

NextInstall ==
    \/ \E i \in DOMAIN ins : InstallBegin(i)
    \/ \E i \in DOMAIN ins : InstallPlace(i)
    \/ \E i \in DOMAIN ins : InstallExtract(i)
    \/ \E i \in DOMAIN ins : InstallRecord(i)
    \/ \E i \in DOMAIN ins : InstallRespond(i)

SpecInstall == InitInstall /\ [][NextInstall]_vars

(***************************************************************************)
(* Two installs served at once: the handler is a coroutine, and another    *)
(* request runs wherever it awaits.  No lock is taken anywhere in          *)
(* upload_and_install.                                                     *)
(***************************************************************************)

InitRace ==
    /\ disk = "plain"
    /\ setting = << [kind |-> "str", path |-> AbsStr(InstallRoot), type |-> ""] >>
    /\ software = <<>>
    /\ dropped = {}
    /\ req = IdleReq
    /\ pick = IdlePick
    /\ tree = TreeBase
    /\ ins = << IdleInstall, IdleInstall >>
    /\ scan = IdleScan

\* the uploads that race: one file name, archives of different sizes
RaceArchives == { "flat", "noexe" }

\* the filesystem and zipfile raise nothing of their own
RaceOutcomes(archive) ==
    { x \in ExtractOutcomes(archive) : x.saved /\ x.outcome = "ok" /\ x.moved }

\* POST /api/installer/upload is received: lines 252-268
RaceBegin(i) ==
    /\ ins[i].pc = "idle"
    /\ Len(software) < MaxRaced
    /\ \E archive \in RaceArchives :
         ins' = [ins EXCEPT ![i] = Received(<<"F","o","o",".","z","i","p">>, archive,
                                            ValidateUpload(<<"F","o","o",".","z","i","p">>),
                                            Len(software))]
    /\ UNCHANGED <<disk, setting, software, dropped, req, pick, tree, scan>>

\* lines 290-326 of a racing install
RaceExtract(i) == ExtractStep(i, RaceOutcomes(ArchiveOf(ins[i].archive)))

\* lines 329-385 of a racing install: the LLM is not configured, the index
\* is updated, and the store may fail
RaceRecord(i) == RecordStep(i, { "unconfigured" }, BOOLEAN, { TRUE })

NextRace ==
    \/ \E i \in DOMAIN ins : RaceBegin(i)
    \/ \E i \in DOMAIN ins : InstallPlace(i)
    \/ \E i \in DOMAIN ins : RaceExtract(i)
    \/ \E i \in DOMAIN ins : RaceRecord(i)
    \/ \E i \in DOMAIN ins : InstallRespond(i)

SpecRace == InitRace /\ [][NextRace]_vars

(***************************************************************************)
(* Installs of an archive that holds more executables than a response      *)
(* lists, one after the other                                              *)
(***************************************************************************)

InitMany ==
    /\ disk = "plain"
    /\ setting = << [kind |-> "str", path |-> AbsStr(InstallRoot), type |-> ""] >>
    /\ software = <<>>
    /\ dropped = {}
    /\ req = IdleReq
    /\ pick = IdlePick
    /\ tree \in InstallTrees
    /\ ins = << IdleInstall >>
    /\ scan = IdleScan

ManyArchives == { "many", "wrapped" }

\* POST /api/installer/upload is received: lines 252-268
ManyBegin(i) ==
    /\ ins[i].pc = "idle"
    /\ Len(software) < MaxInstalled
    /\ \E filename \in UploadNames \ { <<>> }, archive \in ManyArchives :
         ins' = [ins EXCEPT ![i] = Received(filename, archive, ValidateUpload(filename),
                                            Len(software))]
    /\ UNCHANGED <<disk, setting, software, dropped, req, pick, tree, scan>>

\* lines 290-326, the filesystem and zipfile raising nothing of their own
ManyExtract(i) == ExtractStep(i, RaceOutcomes(ArchiveOf(ins[i].archive)))

\* lines 329-385, the store and the index raising nothing
ManyRecord(i) == RecordStep(i, LlmOutcomes, { TRUE }, { TRUE })

NextMany ==
    \/ \E i \in DOMAIN ins : ManyBegin(i)
    \/ \E i \in DOMAIN ins : InstallPlace(i)
    \/ \E i \in DOMAIN ins : ManyExtract(i)
    \/ \E i \in DOMAIN ins : ManyRecord(i)
    \/ \E i \in DOMAIN ins : InstallRespond(i)

SpecMany == InitMany /\ [][NextMany]_vars

(***************************************************************************)
(* Scans one after the other over directories that hold software already   *)
(***************************************************************************)

\* Foo with two executables, and a file beside it
ScanTreeOne ==
    [dirs  |-> Ancestors(InstallRoot) \cup { Append(InstallRoot, n_Foo) },
     files |-> { [at |-> InstallRoot \o <<n_Foo, n_FooExe>>, size |-> 2048, data |-> ""],
                 [at |-> InstallRoot \o <<n_Foo, n_uninst>>, size |-> 512, data |-> ""],
                 [at |-> InstallRoot \o <<n_rtxt>>, size |-> 10, data |-> ""] }]

\* Foo, app without an executable, and sub
ScanTreeThree ==
    [dirs  |-> Ancestors(InstallRoot)
               \cup { Append(InstallRoot, n_Foo), Append(InstallRoot, n_app),
                      Append(InstallRoot, n_sub) },
     files |-> { [at |-> InstallRoot \o <<n_Foo, n_FooExe>>, size |-> 2048, data |-> ""],
                 [at |-> InstallRoot \o <<n_app, n_rtxt>>, size |-> 10, data |-> ""],
                 [at |-> InstallRoot \o <<n_sub, n_xexe>>, size |-> 100, data |-> ""] }]

ScanTrees == { TreeBase, ScanTreeOne, ScanTreeThree }

ScanSettings ==
    { serialize_allowed_dirs(DEFAULT_ALLOWED_DIRS),
      << [kind |-> "dict", path |-> AbsStr(InstallRoot), type |-> DIR_TYPE_SOFTWARE] >>,
      << [kind |-> "str", path |-> AbsStr(InstallRoot), type |-> ""] >>,
      << [kind |-> "str", path |-> AbsStr(<<n_data, n_app>>), type |-> ""],
         [kind |-> "str", path |-> AbsStr(InstallRoot), type |-> ""] >> }

\* the tables a scan starts on: empty, a record named Foo for a file
\* elsewhere, and two records of that name
ScanTables ==
    { <<>>,
      << NewSoftware(n_Foo, AbsStr(<<n_srv, n_FooExe>>), <<>>) >>,
      << NewSoftware(n_Foo, AbsStr(<<n_srv, n_FooExe>>), <<>>),
         NewSoftware(n_Foo, AbsStr(<<n_srv, n_xexe>>), <<>>) >> }

InitScan ==
    /\ disk = "plain"
    /\ setting \in ScanSettings
    /\ software \in ScanTables
    /\ dropped = {}
    /\ req = IdleReq
    /\ pick = IdlePick
    /\ tree \in ScanTrees
    /\ ins = <<>>
    /\ scan = IdleScan

\* POST /api/installer/scan-dirs is received: lines 410-432
ScanBegin ==
    /\ scan.pc = "idle"
    /\ scan.run < MaxScans
    /\ scan' = ScanStarted(scan, tree, setting, software)
    /\ UNCHANGED <<disk, setting, software, dropped, req, pick, tree, ins>>

\* the visit of the next subdirectory, for an order of the walk and what
\* the description generator and the store do
VisitNext(subdir, executables, llm, written) ==
    LET o == VisitSubdir(scan, software, subdir,
                         ScanExecutable(executables, subdir[Len(subdir)]), llm, written)
    IN /\ scan' = o.scan
       /\ software' = o.table

\* one pass of the inner loop: lines 440-517
ScanVisit ==
    /\ scan.pc = "visiting"
    /\ scan.todo # <<>>
    /\ \E executables \in FindExecutables(tree, Head(scan.todo)) :
       \E llm \in LlmOutcomes, written \in BOOLEAN :
         VisitNext(Head(scan.todo), executables, llm, written)
    /\ UNCHANGED <<disk, setting, dropped, req, pick, tree, ins>>

\* the loops are over: lines 519-526
ScanEnd ==
    /\ scan.pc = "visiting"
    /\ scan.todo = <<>>
    /\ scan' = ScanFinished(scan)
    /\ UNCHANGED <<disk, setting, software, dropped, req, pick, tree, ins>>

\* the response is sent and get_db closes the session
ScanRespond ==
    /\ scan.pc = "done"
    /\ scan' = [scan EXCEPT !.pc = "idle"]
    /\ UNCHANGED <<disk, setting, software, dropped, req, pick, tree, ins>>

NextScan ==
    \/ ScanBegin
    \/ ScanVisit
    \/ ScanEnd
    \/ ScanRespond

SpecScan == InitScan /\ [][NextScan]_vars

(***************************************************************************)
(* Properties of the OS bridge (checked under Spec)                        *)
(***************************************************************************)

\* the canonical form of the path the request names
CanonTarget == Resolve(fs, PathOf(req.raw))

\* the canonical forms of the whitelist entries of a stored list
WhitelistRoots(stored) ==
    LET entries == parse_allowed_dirs(stored)
    IN { Resolve(fs, PathOf(entries[i].path)) : i \in 1..Len(entries) }

\* p is w or lies under w, told on the path strings: p continues w with a
\* separator
StrOnSegmentBoundary(ps, ws) ==
    \/ ps = ws
    \/ StartsWith(ps, IF ws = <<"/">> THEN ws ELSE ws \o <<"/">>)

\* the same, of two paths
OnSegmentBoundary(p, w) == StrOnSegmentBoundary(PathStr(p), PathStr(w))

\* p is inside the whitelist of a stored list
Covered(p, stored) == \E w \in WhitelistRoots(stored) : OnSegmentBoundary(p, w)

\* the raw input has a traversal token, or is not absolute
BadRaw(raw) == StrContains(raw, n_up) \/ raw = <<>> \/ raw[1] # "/"

\* the path string ends, case folded, with an allowed executable suffix
StrHasExecutableSuffix(str) ==
    \E suf \in ALLOWED_EXECUTABLE_SUFFIXES :
        /\ Len(str) > Len(suf)
        /\ SubSeq(str, Len(str) - Len(suf) + 1, Len(str)) = suf
        /\ str[Len(str) - Len(suf)] # "/"

\* the same, of a path
HasExecutableSuffix(p) == StrHasExecutableSuffix(Lower(PathStr(p)))

\* C1 (launch safety): whenever a Launch request has called Popen or
\* ShellExecuteW, the raw input had no ".." and was absolute, the path handed
\* to the spawn is the canonical form of the input, it lies inside the
\* whitelist this request read, it carries an allowed executable suffix and
\* it is an existing regular file; so a request that fails one of the four
\* checks starts nothing.
LaunchSafety ==
    (req.op = "launch" /\ (req.popens > 0 \/ req.elevs > 0 \/ req.started # "none"))
    => /\ ~BadRaw(req.raw)
       /\ req.resolved = CanonTarget
       /\ req.wlRead /\ Covered(req.resolved, req.wlAtRead)
       /\ HasExecutableSuffix(req.resolved)
       /\ req.resolved.parts \in fs.files

\* C1 witness: a Launch whose elevated retry started the process
LaunchSafetyWitness ==
    req.op = "launch" /\ req.pc = "done" /\ req.started = "elevated" /\ req.res.status = 200

\* C2 (containment): a request that got past the input checks is let through
\* the sandbox exactly if the canonical form of its path equals the canonical
\* form of a whitelist entry or lies under it on a path-segment boundary; so
\* /data/app2/x.exe is rejected against [/data/app], and nothing is accepted
\* against the empty whitelist.
Containment ==
    req.wlRead
    => /\ (req.res.kind # "Forbidden") <=> Covered(CanonTarget, req.wlAtRead)
       /\ parse_allowed_dirs(req.wlAtRead) = <<>> => req.res.kind = "Forbidden"
       /\ ( /\ Len(req.wlAtRead) = 1
            /\ req.wlAtRead[1].path = AbsStr(<<n_data, n_app>>)
            /\ req.raw = AbsStr(<<n_data, n_app2, n_xexe>>) )
          => req.res.kind = "Forbidden"

\* C2 witness: /data/app2/x.exe was refused against the whitelist [/data/app]
ContainmentWitness ==
    /\ req.wlRead /\ req.op = "launch"
    /\ Len(req.wlAtRead) = 1 /\ req.wlAtRead[1].path = AbsStr(<<n_data, n_app>>)
    /\ req.raw = AbsStr(<<n_data, n_app2, n_xexe>>)
    /\ req.res = HttpError(403, "Forbidden")

\* C3 (traversal rejection): a Launch or OpenDirectory whose raw input holds
\* ".." anywhere ends as a bad-input error, and neither resolve() nor the
\* whitelist read was reached, whatever the whitelist holds.
TraversalRejected ==
    (req.op \in {"launch", "open_dir"} /\ StrContains(req.raw, n_up))
    => /\ req.pc = "done"
       /\ req.res = HttpError(400, "BadInput")
       /\ ~req.didResolve /\ ~req.wlRead
       /\ req.popens = 0 /\ req.elevs = 0

\* C3 witness: /data/app/a..b.exe, where ".." is no path segment, was
\* rejected while /data/app was whitelisted
TraversalRejectedWitness ==
    /\ req.op = "launch" /\ req.raw = AbsStr(<<n_data, n_app, n_dots>>)
    /\ req.res = HttpError(400, "BadInput")
    /\ \E i \in 1..Len(setting) : setting[i].path = AbsStr(<<n_data, n_app>>)

\* the raw path is lexically under (or is) a whitelist entry as stored
LexicallyUnder(raw, stored) ==
    LET entries == parse_allowed_dirs(stored)
    IN \E i \in 1..Len(entries) :
          \/ raw = entries[i].path
          \/ StartsWith(raw, entries[i].path \o <<"/">>)

\* C4 (symlink defence): a request whose path is lexically under a whitelist
\* root, but whose canonical form is outside every canonical whitelist root,
\* is Forbidden; and a request whose canonical path lies under the canonical
\* form of an entry (an entry given through a symbolic link included) is not
\* Forbidden.
SymlinkDefence ==
    req.wlRead
    => /\ (LexicallyUnder(req.raw, req.wlAtRead) /\ ~Covered(CanonTarget, req.wlAtRead))
          => req.res = HttpError(403, "Forbidden")
       /\ (\E i \in 1..Len(req.wlAtRead) :
              /\ IsLink(fs, PathOf(req.wlAtRead[i].path).parts)
              /\ OnSegmentBoundary(CanonTarget, Resolve(fs, PathOf(req.wlAtRead[i].path))))
          => req.res.kind # "Forbidden"

\* C4 witness: /data/app/lnk/x.exe, with lnk a link to /secret, was refused
\* against a whitelist that holds /data/app
SymlinkDefenceWitness ==
    /\ req.wlRead /\ req.raw = AbsStr(<<n_data, n_app, n_lnk, n_xexe>>)
    /\ IsLink(fs, <<n_data, n_app, n_lnk>>)
    /\ LexicallyUnder(req.raw, req.wlAtRead)
    /\ req.res = HttpError(403, "Forbidden")

\* the error a Launch must report for this input, whitelist and filesystem:
\* the first failing check in the order BadInput, Forbidden, UnsupportedType,
\* NotFound; NoResult when every check passes
ExpectedLaunchErrorAt(canon, raw, stored) ==
    IF BadRaw(raw) THEN HttpError(400, "BadInput")
    ELSE IF ~Covered(canon, stored) THEN HttpError(403, "Forbidden")
    ELSE IF ~HasExecutableSuffix(canon) THEN HttpError(400, "UnsupportedType")
    ELSE IF canon.parts \notin fs.files THEN HttpError(404, "NotFound")
    ELSE NoResult

ExpectedLaunchError(raw, stored) ==
    ExpectedLaunchErrorAt(Resolve(fs, PathOf(raw)), raw, stored)

\* the same for OpenDirectory: BadInput, Forbidden, NotFound
ExpectedOpenDirErrorAt(canon, raw, stored) ==
    IF BadRaw(raw) THEN HttpError(400, "BadInput")
    ELSE IF ~Covered(canon, stored) THEN HttpError(403, "Forbidden")
    ELSE IF canon.parts \notin fs.dirs THEN HttpError(404, "NotFound")
    ELSE NoResult

ExpectedOpenDirError(raw, stored) ==
    ExpectedOpenDirErrorAt(Resolve(fs, PathOf(raw)), raw, stored)

CheckErrorKinds == { "BadInput", "Forbidden", "UnsupportedType", "NotFound" }

\* the stored list the checks of the request ran against
CheckedAgainst == IF req.wlRead THEN req.wlAtRead ELSE setting

\* the request reports the error `want`, or none of the four when want is
\* NoResult
Reports(want) ==
    IF want # NoResult THEN req.res = want ELSE req.res.kind \notin CheckErrorKinds

\* C5 (error precedence): a finished Launch reports the first failing check
\* in the order BadInput, Forbidden, UnsupportedType, NotFound, and reports
\* none of them when all pass; a finished OpenDirectory does the same with
\* the order BadInput, Forbidden, NotFound and never reports UnsupportedType.
ErrorPrecedence ==
    /\ (req.op = "launch" /\ req.pc \in {"done", "await_ts"})
       => Reports(ExpectedLaunchError(req.raw, CheckedAgainst))
    /\ (req.op = "open_dir" /\ req.pc = "done")
       => /\ Reports(ExpectedOpenDirError(req.raw, CheckedAgainst))
          /\ req.res.kind # "UnsupportedType"

\* C5 witness: /secret/q.txt (outside the whitelist, disallowed suffix, not
\* existing) was reported Forbidden against a whitelist with entries
ErrorPrecedenceWitness ==
    /\ req.op = "launch" /\ req.pc = "done"
    /\ req.raw = AbsStr(<<n_secret, n_qtxt>>)
    /\ req.wlAtRead # <<>>
    /\ req.res = HttpError(403, "Forbidden")

\* C6 (whitelist freshness): the step of a request that runs the whitelist
\* check decides on the list stored at that moment: the request becomes
\* Forbidden exactly if its canonical path is outside the stored list as the
\* last update left it.
WhitelistFresh ==
    [][ (req.pc = "await_wl" /\ req'.pc # "await_wl")
        => ((req'.res.kind = "Forbidden") <=> ~Covered(CanonTarget, setting)) ]_vars

\* C6 witness: the most recent update took /data/app off the stored list,
\* and the Launch of /data/app/x.exe that read the list after it is Forbidden
WhitelistFreshWitness ==
    /\ req.op = "launch" /\ req.pc = "done" /\ req.wlRead
    /\ req.raw = AbsStr(<<n_data, n_app, n_xexe>>)
    /\ AbsStr(<<n_data, n_app>>) \in req.droppedAtRead
    /\ req.res = HttpError(403, "Forbidden")

\* ShellExecuteW failed: it raised, or returned a code that is no success
ShellFailed(shell) == shell.raised \/ shell.ret <= ShellExecuteFailMax

\* C7 (elevation retry): a Launch calls ShellExecuteW at most once, and only
\* after its one Popen raised OSError with winerror 740; any other OSError
\* ends it as LaunchFailure with no elevation attempt; a failed or declined
\* elevation ends it with a 500 that is not LaunchFailure; a successful
\* elevation ends it as success.
ElevationRetry ==
    req.op = "launch"
    => /\ req.elevs <= 1 /\ req.popens <= 1
       /\ req.elevs = 1
          => (req.popens = 1 /\ req.popen.raised /\ req.popen.winerror = WinErrorElevation)
       /\ (req.popens = 1 /\ req.popen.raised /\ req.popen.winerror # WinErrorElevation)
          => (req.elevs = 0 /\ req.started = "none" /\ req.pc = "done"
              /\ req.res = HttpError(500, "LaunchFailure"))
       /\ (req.elevs = 1 /\ ShellFailed(req.shell))
          => (req.started = "none" /\ req.pc = "done" /\ req.res.status = 500
              /\ req.res.kind \in {"ElevationDeclined", "ElevationFailed"})
       /\ (req.elevs = 1 /\ ~ShellFailed(req.shell))
          => /\ req.started = "elevated"
             /\ req.pc = "done" => (req.res.status = 200 /\ req.res.kind = "StartedElevated")

\* C7 witness: the user declined the elevation prompt of the one retry
ElevationRetryWitness ==
    /\ req.op = "launch" /\ req.pc = "done" /\ req.elevs = 1
    /\ ~req.shell.raised /\ req.shell.ret = 5
    /\ req.res = HttpError(500, "ElevationDeclined")

Candidates == { pick.executables[i] : i \in 1..Len(pick.executables) }

\* the candidates that survive the exclusion pass of the call (all of them
\* when the pass would drop every one)
Survivors ==
    IF \A e \in Candidates : IsExcluded(e) THEN Candidates
    ELSE { e \in Candidates : ~IsExcluded(e) }

\* the comparison key of the specification: lowercase, then without blanks,
\* hyphens and underscores
RECURSIVE SpecKey(_)
SpecKey(x) ==
    IF x = <<>> THEN <<>>
    ELSE IF Head(x) \in {" ", "-", "_"} THEN SpecKey(Tail(x))
         ELSE <<LowerChar(Head(x))>> \o SpecKey(Tail(x))

\* the name score the specification gives a candidate for a program name
SpecNameScoreOf(stem, name) ==
    IF stem = name THEN 2
    ELSE IF StrContains(stem, name) \/ StrContains(name, stem) THEN 1
    ELSE 0

\* the name score of a candidate for a program name
SpecNameScore(e, programName) ==
    SpecNameScoreOf(SpecKey(CandStem(e)), SpecKey(programName))

\* no survivor of the exclusion pass has a higher name score than s
NoHigherNameScore(s) ==
    \A e \in Survivors : s >= SpecNameScore(e, pick.software_name)

\* C9 (name match dominates): the candidate a call returns has the highest
\* name score among the candidates that survive exclusion, whatever their
\* launcher keywords and sizes: an exact match wins over substring matches
\* and non-matches, a substring match over non-matches; and for
\* [uninstall.exe (1024), Foo.exe (2048), FooHelper.exe (500)] and "Foo" the
\* call returns Foo.exe.
NameMatchDominates ==
    (pick.pc = "done" /\ pick.executables # <<>>)
    => /\ pick.found
       /\ pick.exe \in Survivors
       /\ NoHigherNameScore(SpecNameScore(pick.exe, pick.software_name))
       /\ (pick.executables = <<c_uninstall, c_Foo, c_FooHelper>>
              /\ pick.software_name = name_Foo)
          => pick.exe = c_Foo

\* C9 witness: an exact match that is the smallest file and has no launcher
\* keyword was picked over a larger substring match that has one
NameMatchDominatesWitness ==
    /\ pick.pc = "done" /\ pick.software_name = name_Foo
    /\ pick.executables = <<c_launcher, c_foo_app, c_f_oo>>
    /\ pick.exe = c_f_oo

\* the score tuple of a candidate of the call
SpecScore(e) == <<SpecNameScore(e, pick.software_name), KeywordScore(e), SizeScore(e)>>

\* no candidate of the call has a greater score tuple than t
NoGreaterScore(t) == \A c \in Candidates : ~TupleGreater(SpecScore(c), t)

\* no candidate of the call has a greater score than e
TopScoring(e) == NoGreaterScore(SpecScore(e))

\* C10 (exclusion fallback): a call on a non-empty list returns one of its
\* candidates, never None; when every candidate carries an exclusion marker
\* it returns a top-scoring candidate of the whole list; it returns None
\* exactly for the empty list.
ExclusionFallback ==
    pick.pc = "done"
    => /\ pick.executables # <<>> => (pick.found /\ pick.exe \in Candidates)
       /\ pick.executables = <<>> <=> ~pick.found
       /\ (pick.executables # <<>> /\ \A e \in Candidates : IsExcluded(e))
          => TopScoring(pick.exe)

\* C10 witness: three candidates, all excluded, and one of them returned
ExclusionFallbackWitness ==
    /\ pick.pc = "done" /\ pick.found
    /\ Len(pick.executables) = 3
    /\ \A e \in Candidates : IsExcluded(e)
    /\ pick.exe \in Candidates


\* the place of a candidate in the list the call was given
PlaceOf(e) == CHOOSE i \in 1..Len(pick.executables) : pick.executables[i] = e

\* the candidates the exclusion pass kept whose score tuple is that of e
TiedWith(e) == { c \in Survivors : SpecScore(c) = SpecScore(e) }

Finished == { i \in DOMAIN ins : ins[i].pc = "done" }

\* the request made the directory of its install and then raised, at the
\* extraction or after it
FailedAfterExtraction(r) ==
    r.madeDir /\ r.failed \in { "extract", "hoist", "store" }

\* C11: when an install fails at the extraction step or after it (an archive
\* zipfile cannot read, an I/O error while extracting or moving, a failure
\* of the write to the store), then at the end of the request the
\* directory it made for the install does not exist and the store holds no
\* record more than before the request.
CleanupOnFailure ==
    \A i \in Finished :
        FailedAfterExtraction(ins[i])
        => /\ ~Exists(tree, TreeAt(ins[i].install_dir))
           /\ \A d \in tree.dirs : ~IsBelow(d, TreeAt(ins[i].install_dir))
           /\ \A f \in tree.files : ~IsBelow(f.at, TreeAt(ins[i].install_dir))
           /\ Len(software) = ins[i].rowsBefore
           /\ ins[i].res.status \in { 400, 500 }

\* an install of Foo/Foo.exe whose record could not be written has ended
CleanupOnFailureWitness ==
    \E i \in Finished :
        /\ ins[i].failed = "store"
        /\ ins[i].archive = "wrapped"
        /\ ins[i].madeDir
        /\ ins[i].exe_path_str # <<>>
        /\ ins[i].res.status = 500

\* C12: on every way out of an install that wrote the temporary archive
\* (success, an archive that is no zip file, any other error) the
\* temporary archive does not exist when the request ends.
TempArchiveRemoved ==
    \A i \in Finished :
        ins[i].wroteTemp
        => /\ ~Exists(tree, TreeAt(ins[i].temp_archive))
           /\ \A f \in tree.files : f.data = ""

\* installs that wrote the temporary archive have ended in each way
TempArchiveRemovedWitness ==
    \E i \in Finished :
        /\ ins[i].wroteTemp
        /\ ins[i].res.status = 201
        /\ ins[i].temp_archive = [abs |-> TRUE, parts |-> Append(InstallRoot, TempName(ins[i].filename))]
        /\ Exists(tree, TreeAt(ins[i].install_dir))

\* the record the request wrote: the last row of the table
OwnRecord(r) == software[r.rowsBefore + 1]

\* the request reached the description generator, and neither the
\* filesystem nor the store raised
ReachedCollaborators(r) == r.llm # "none" /\ ~r.fault

\* C13: whatever the description generator does (not configured, an
\* exception, a timeout raised as one) and whether or not the index update
\* raises, the install persists its record, keeps the installed files and
\* answers success; the description is empty when none was generated.
CollaboratorsNotFatal ==
    \A i \in Finished :
        ReachedCollaborators(ins[i])
        => /\ ins[i].res.status = 201
           /\ Len(software) = ins[i].rowsBefore + 1
           /\ OwnRecord(ins[i]).name = ins[i].software_name
           /\ OwnRecord(ins[i]).executable_path = ins[i].exe_path_str
           /\ TreeAt(ins[i].install_dir) \in tree.dirs
           /\ \A c \in 1..Len(ins[i].exe_candidates) :
                 \E f \in tree.files : AbsStr(f.at) = ins[i].exe_candidates[c]
           /\ (ins[i].llm # "text"
               => ins[i].res.description = <<>> /\ OwnRecord(ins[i]).description = <<>>)

\* an install has succeeded although the description generator and the
\* index update both raised
CollaboratorsNotFatalWitness ==
    \E i \in Finished :
        /\ ins[i].llm = "raised"
        /\ ins[i].index = "raised"
        /\ ins[i].res.status = 201
        /\ ins[i].exe_path_str # <<>>

\* the request has chosen the place of its install
HasPlace(r) == r.stage \notin { "none", "validate" } /\ r.failed # "place"

\* the name the program is installed under when these names are taken in
\* the root: its own, or with the smallest counter from 1 that is free
FreeName(stem, taken) ==
    IF stem \notin taken THEN stem
    ELSE Suffixed(stem, CHOOSE k \in 1..(Cardinality(taken) + 1) :
                            /\ Suffixed(stem, k) \notin taken
                            /\ \A j \in 1..(k - 1) : Suffixed(stem, j) \in taken)

\* C14: when <root>/<name> exists the install takes <name>_k for the
\* smallest k >= 1 with <root>/<name>_k not existing, for the directory and
\* for the record alike; so the directory of every install that succeeds
\* did not exist before it, and a second upload of the same archive gives a
\* second record, named <name>_1, with another install directory.
CollisionResolution ==
    \A i \in DOMAIN ins :
        HasPlace(ins[i])
        => /\ ins[i].software_name = FreeName(ins[i].stem, ins[i].occupied)
           /\ ins[i].software_name \notin ins[i].occupied
           /\ ins[i].install_dir = Join(ins[i].base_dir, ins[i].software_name)
           /\ (ins[i].res.status = 201
               => /\ ins[i].res.name = ins[i].software_name
                  /\ OwnRecord(ins[i]).name = ins[i].software_name
                  /\ ins[i].res.install_dir = PathStr(ins[i].install_dir)
                  /\ \A k \in 1..ins[i].rowsBefore :
                        software[k].name # ins[i].software_name)

\* Foo.zip was installed twice into the empty root: the records are Foo and
\* Foo_1, and the second install went to <root>/Foo_1
CollisionResolutionWitness ==
    /\ Len(software) = 2
    /\ software[1].name = n_Foo
    /\ software[2].name = <<"F","o","o","_","1">>
    /\ \E i \in Finished :
         /\ ins[i].res.status = 201
         /\ ins[i].stem = n_Foo
         /\ n_Foo \in ins[i].occupied
         /\ ins[i].res.install_dir = AbsStr(Append(InstallRoot, <<"F","o","o","_","1">>))

\* the names at the top of an archive
TopLevel(archive) ==
    { d[1] : d \in { x \in archive.dirs \cup { f.at : f \in archive.files } : x # <<>> } }

\* the archive is readable and its one top-level entry is a directory
SingleWrapper(archive) ==
    /\ archive.valid
    /\ Cardinality(TopLevel(archive)) = 1
    /\ \E x \in TopLevel(archive) : <<x>> \in archive.dirs

\* what the destination directory is to hold for an archive: the children
\* of the wrapper when there is one, the members as they are otherwise
ExpectedLayout(archive) ==
    IF SingleWrapper(archive)
    THEN [dirs  |-> { Tail(d) : d \in { x \in archive.dirs : Len(x) > 1 } },
          files |-> { Tail(f.at) : f \in archive.files }]
    ELSE [dirs |-> archive.dirs, files |-> { f.at : f \in archive.files }]

\* what a directory holds, by the paths from it
LayoutAt(t, directory) ==
    [dirs  |-> { SubSeq(d, Len(directory) + 1, Len(d)) :
                 d \in { x \in t.dirs : IsBelow(x, directory) /\ x # directory } },
     files |-> { SubSeq(f.at, Len(directory) + 1, Len(f.at)) :
                 f \in { x \in t.files : IsBelow(x.at, directory) } }]

\* the install of a readable archive went through with no failure of the
\* filesystem or the store
RanUndisturbed(r) == r.madeDir /\ ~r.fault /\ ArchiveOf(r.archive).valid

\* C15: for every readable archive whose one top-level entry is a
\* directory X, the install succeeds with the children of X directly in the
\* destination directory and no X level, whatever the children of X are
\* called; for an archive with no or several top-level entries nothing is
\* moved.
ExtractionNormalised ==
    \A i \in Finished :
        RanUndisturbed(ins[i])
        => /\ ins[i].res.status = 201
           /\ LayoutAt(tree, TreeAt(ins[i].install_dir))
                = ExpectedLayout(ArchiveOf(ins[i].archive))

\* the software roots of a stored whitelist, as the whitelist is read
\* everywhere else: either representation, legacy strings being software
SoftwareRoots(stored) ==
    SelectSeq(parse_allowed_dirs(stored), LAMBDA e : e.type = DIR_TYPE_SOFTWARE)

\* the request is past the choice of its base directory
PastBase(r) == r.pc \in { "await_read", "await_llm", "done" } /\ r.failed # "validate"

\* C16: for a whitelist stored in either representation (a list of entries
\* with path and type, or a legacy list of path strings), the install puts
\* its directory and its temporary archive under the first software root;
\* it uses no workspace root and no other directory, and it does not fail
\* because of the representation.
InstallUnderSoftwareRoot ==
    \A i \in DOMAIN ins :
        (PastBase(ins[i]) /\ SoftwareRoots(setting) # <<>>)
        => /\ ins[i].failed # "place"
           /\ ins[i].base_dir = PathOf(SoftwareRoots(setting)[1].path)
           /\ ins[i].install_dir.parts
                = Append(PathOf(SoftwareRoots(setting)[1].path).parts, ins[i].software_name)
           /\ ins[i].temp_archive.parts
                = Append(PathOf(SoftwareRoots(setting)[1].path).parts, TempName(ins[i].filename))

\* the directory an install named `name` was given
DirOfInstall(name) == Append(InstallRoot, name)

\* C17: every record an install creates has an executable path that is
\* empty or names a file inside the destination directory of that same
\* install as the normalisation left it, never a path in the directory of
\* another install or outside the whitelist root.
ExecutableInsideInstall ==
    /\ \A k \in 1..Len(software) :
          \/ software[k].executable_path = <<>>
          \/ /\ PathOf(software[k].executable_path).abs
             /\ IsBelow(PathOf(software[k].executable_path).parts, DirOfInstall(software[k].name))
             /\ Len(PathOf(software[k].executable_path).parts) > Len(DirOfInstall(software[k].name))
             /\ \A j \in 1..Len(software) :
                   j # k => ~IsBelow(PathOf(software[k].executable_path).parts,
                                     DirOfInstall(software[j].name))
    /\ \A i \in Finished :
          ins[i].res.status = 201
          => /\ TreeAt(ins[i].install_dir) = DirOfInstall(OwnRecord(ins[i]).name)
             /\ ins[i].res.executable_path = OwnRecord(ins[i]).executable_path
             /\ (OwnRecord(ins[i]).executable_path # <<>>
                 => PathOf(OwnRecord(ins[i]).executable_path).parts \in FilePaths(tree))

\* the second install of a wrapped archive has its executable in its own
\* directory Foo_1, with the wrapper level gone
ExecutableInsideInstallWitness ==
    \E i \in Finished :
        /\ ins[i].res.status = 201
        /\ ins[i].archive = "wrapped"
        /\ ins[i].rowsBefore = 1
        /\ OwnRecord(ins[i]).executable_path
             = AbsStr(InstallRoot \o << <<"F","o","o","_","1">>, n_FooExe >>)

\* no member of the archive has an allowed executable suffix
NoExecutableMember(archive) ==
    \A f \in archive.files : ~StrHasExecutableSuffix(Lower(f.at[Len(f.at)]))

\* C20: an archive without a file of an allowed executable suffix installs
\* all the same: the files stay extracted, a record with an empty
\* executable path is persisted, the response lists no candidate and its
\* message asks for a manual choice.
InstallWithoutExecutable ==
    \A i \in Finished :
        (RanUndisturbed(ins[i]) /\ NoExecutableMember(ArchiveOf(ins[i].archive)))
        => /\ ins[i].res.status = 201
           /\ ins[i].res.executable_path = <<>>
           /\ ins[i].res.exe_candidates = <<>>
           /\ ins[i].res.message = "manual"
           /\ Len(software) = ins[i].rowsBefore + 1
           /\ OwnRecord(ins[i]).executable_path = <<>>
           /\ OwnRecord(ins[i]).name = ins[i].software_name
           /\ TreeAt(ins[i].install_dir) \in tree.dirs
           /\ LayoutAt(tree, TreeAt(ins[i].install_dir))
                = ExpectedLayout(ArchiveOf(ins[i].archive))

\* the archive that holds r.txt only has been installed
InstallWithoutExecutableWitness ==
    \E i \in Finished :
        /\ ins[i].archive = "noexe"
        /\ ins[i].res.status = 201
        /\ ins[i].res.message = "manual"
        /\ Append(TreeAt(ins[i].install_dir), n_rtxt) \in FilePaths(tree)

(***************************************************************************)
(* Properties of the scan (checked under SpecScan)                         *)
(***************************************************************************)

\* the first-level subdirectories of the software roots of the whitelist
WhitelistSubdirs ==
    { d \in tree.dirs :
        \E k \in 1..Len(SoftwareRoots(setting)) :
            /\ IsBelow(d, TreeAt(PathOf(SoftwareRoots(setting)[k].path)))
            /\ Len(d) = Len(TreeAt(PathOf(SoftwareRoots(setting)[k].path))) + 1 }

\* the records the scans have imported so far
RECURSIVE ImportedIn(_)
ImportedIn(history) ==
    IF history = <<>> THEN 0 ELSE Head(history).imported + ImportedIn(Tail(history))

\* the store was empty before the first scan, and no visit has failed
ScansUndisturbed ==
    /\ Len(software) = ImportedIn(scan.history)
    /\ \A k \in 1..Len(scan.history) : scan.history[k].failed = 0

\* C18: from a store without matching records, the first scan over a
\* whitelist root with N first-level subdirectories answers imported = N,
\* skipped = 0, every scan after it imported = 0, skipped = N, and the store
\* then holds one record for each subdirectory and no more.
ScanDedup ==
    (scan.pc = "done" /\ ScansUndisturbed)
    => /\ scan.history[1].imported = Cardinality(WhitelistSubdirs)
       /\ scan.history[1].skipped = 0
       /\ \A k \in 2..Len(scan.history) :
             /\ scan.history[k].imported = 0
             /\ scan.history[k].skipped = Cardinality(WhitelistSubdirs)
       /\ Len(software) = Cardinality(WhitelistSubdirs)
       /\ \A d \in WhitelistSubdirs :
             Cardinality(RowsNamed(software, d[Len(d)])) = 1

\* C19: when the import of one subdirectory fails (an error of the store on
\* its write, say), the failure is counted, the scan goes on to every
\* subdirectory left, and each of those is imported or skipped as it would
\* have been without the failing one: a subdirectory is reported failed
\* only for a failure of its own statements.
ScanFailureIsolated ==
    /\ \A k \in 1..Len(scan.details) :
          scan.details[k].status = "failed" => scan.details[k].own
    /\ scan.pc = "done"
       => /\ Len(scan.details) = scan.found
          /\ scan.imported + scan.skipped + scan.failed = scan.found

(***************************************************************************)
(* Further properties of the installer                                     *)
(***************************************************************************)

\* the name of an upload is empty or does not end in .zip
NotAnArchiveName(filename) ==
    \/ filename = <<>>
    \/ Len(filename) < 4
    \/ Lower(SubSeq(filename, Len(filename) - 3, Len(filename))) # <<".","z","i","p">>

\* the request is being served for an upload of such a name
ServesRejected(r) == r.pc # "idle" /\ NotAnArchiveName(r.filename)

\* C21: an install whose file name is empty or does not carry the .zip
\* extension is answered with the input-validation error 400 before
\* anything is written: no step of the request changes the files under the
\* whitelist root (no temporary archive, no install directory) or the store.
InputRejectionNoTrace ==
    [][\A i \in DOMAIN ins :
         (ins'[i] # ins[i] /\ (ServesRejected(ins[i]) \/ ServesRejected(ins'[i])))
         => /\ tree' = tree
            /\ software' = software
            /\ ServesRejected(ins'[i])
               => /\ ins'[i].pc = "done"
                  /\ ins'[i].res.status = 400
                  /\ ~ins'[i].wroteTemp /\ ~ins'[i].madeDir]_vars

\* Foo.rar was turned away after an install had succeeded
InputRejectionNoTraceWitness ==
    \E i \in Finished :
        /\ ins[i].filename = <<"F","o","o",".","r","a","r">>
        /\ ins[i].failed = "validate"
        /\ ins[i].res.kind = "BadSuffix"
        /\ Len(software) = 1
        /\ tree.files # {}

\* the requests whose install directory has been extracted and normalized
\* and not touched since
Normalized == { i \in DOMAIN ins : ins[i].pc = "await_llm" }

TopOf(layout) == { d[1] : d \in { x \in layout.dirs \cup layout.files : x # <<>> } }

\* the one top-level directory of the archive holds one entry and no more,
\* a directory
WrapperInWrapper(archive) ==
    /\ SingleWrapper(archive)
    /\ Cardinality(TopOf(ExpectedLayout(archive))) = 1
    /\ \E x \in TopOf(ExpectedLayout(archive)) : <<x>> \in ExpectedLayout(archive).dirs

SawNames(i, j) ==
    ins[i].occupied \ { TempName(ins[i].filename), TempName(ins[j].filename) }

\* two requests for one program name under one root that found the same
\* names there
SameView(i, j) ==
    /\ i # j
    /\ ins[i].pc \in { "await_read", "await_llm", "done" } /\ ins[i].stage # "validate"
    /\ ins[j].pc \in { "await_read", "await_llm", "done" } /\ ins[j].stage # "validate"
    /\ ins[i].stem = ins[j].stem
    /\ ins[i].base_dir = ins[j].base_dir
    /\ SawNames(i, j) = SawNames(j, i)

\* C22: nothing keeps two installs of one program name under one root
\* apart: no lock is taken and no name is set aside, so two requests
\* served at once that found the same names in the base directory (the
\* second chose before the first made its directory) have the same install
\* directory and the same record name.
CollisionRace ==
    \A i, j \in DOMAIN ins :
        SameView(i, j)
        => /\ ins[i].install_dir = ins[j].install_dir
           /\ ins[i].software_name = ins[j].software_name

\* both installs of Foo.zip succeeded with the directory Foo and the record
\* name Foo
CollisionRaceWitness ==
    /\ Finished = { 1, 2 }
    /\ ins[1].res.status = 201 /\ ins[2].res.status = 201
    /\ ins[1].res.install_dir = ins[2].res.install_dir
    /\ ins[1].res.name = n_Foo /\ ins[2].res.name = n_Foo
    /\ Len(software) = 2
    /\ software[1].name = software[2].name

(***************************************************************************)
(* Further properties of the OS bridge                                     *)
(***************************************************************************)

\* C23: a launch that passed its checks and started the program goes on to
\* its result whether or not the program ever exits: the handler does not
\* wait for the child.  (Checked under SpecFair, where no fairness makes a
\* started program exit.)
FireAndForget ==
    (req.pc = "await_ts" /\ req.child = "running") ~> (req.pc = "done")

\* the launch has answered "started" while the program is still running
FireAndForgetWitness ==
    /\ req.op = "launch" /\ req.pc = "done"
    /\ req.started = "normal"
    /\ req.child = "running"
    /\ req.res = ActionResponse("Started", req.resolved)

\* a stored record carries a time of last use
HasLastUsed(row) == "last_used_at" \in DOMAIN row

\* C25: after a launch of path P that answered with success, every stored
\* record whose executable_path is P carries the time of the launch as its
\* last_used_at, also when more than one record stores P.
LastUsedStamped ==
    (req.op = "launch" /\ req.pc = "done" /\ req.res.status = 200)
    => \A i \in MatchingRows(software, PathStr(req.resolved)) : HasLastUsed(software[i])

(***************************************************************************)
(* Further properties of the heuristic picker (checked under SpecPick)     *)
(***************************************************************************)

\* the normalized stem of a candidate holds one of the markers uninstall,
\* uninst, update, updater, crash, helper
MarkedNonPrimary(e) == ContainsAny(SpecKey(CandStem(e)), exclude_keywords)

\* the candidates the exclusion pass of the call kept
KeptByExclusion ==
    { FilterCandidates(pick.executables)[i] :
        i \in 1..Len(FilterCandidates(pick.executables)) }

\* C24: the exclusion pass tests the markers against the normalized stem
\* (lowercase, without blanks, hyphens and underscores): a call with a
\* candidate whose normalized stem holds no marker never returns one whose
\* normalized stem holds a marker, and two candidates whose stems normalize
\* to the same key are both dropped or both kept.
ExclusionOnNormalisedStem ==
    (pick.pc = "done" /\ pick.executables # <<>>)
    => /\ (\E e \in Candidates : ~MarkedNonPrimary(e)) => ~MarkedNonPrimary(pick.exe)
       /\ \A e1, e2 \in Candidates :
            SpecKey(CandStem(e1)) = SpecKey(CandStem(e2))
            => (e1 \in KeptByExclusion <=> e2 \in KeptByExclusion)

(***************************************************************************)
(* Further properties of installs served at once (checked under SpecRace)  *)
(***************************************************************************)

\* the installs that were answered with their record
Installed == { i \in Finished : ins[i].res.status = 201 }

\* C28: the cleanup of a failing install removes only what that install
\* made: the directory of an install that was answered with its record is
\* there, whatever other installs failed meanwhile or afterwards.
CleanupSparesOthers ==
    \A i \in Installed : Exists(tree, TreeAt(ins[i].install_dir))

\* the requests that have gone through the extraction of their temporary
\* archive
Extracting == { i \in DOMAIN ins : ins[i].extracted # "" }

\* C29: installs served at once whose uploads have the same file name do
\* not interfere through the temporary archive: what a request extracts is
\* the upload it was sent, and the file is there when it is extracted.
TempArchiveOwn ==
    \A i \in Extracting : ins[i].extracted = ins[i].archive

(***************************************************************************)
(* Further properties of the install result (checked under SpecMany)       *)
(***************************************************************************)

\* the entries of a list
Listed(list) == { list[k] : k \in 1..Len(list) }

\* C30: the result of a successful install lists at most 20 candidates,
\* and the executable it names, when it names one, is one of them, however
\* many executables the archive held.
ChosenIsListed ==
    \A i \in Installed :
        /\ Len(ins[i].res.exe_candidates) <= 20
        /\ ins[i].res.executable_path # <<>>
           => ins[i].res.executable_path \in Listed(ins[i].res.exe_candidates)

====
